---- MODULE Spec2Model ----
(***************************************************************************)
(* A model of the minisearch engine: the segmented document store          *)
(* (storage/documents.rs), the index log (index.rs), the token hasher      *)
(* (utils/hasher.rs), the running average document length and the public   *)
(* operations of core/search.rs (add, get, delete, search, flush, merge)   *)
(* together with reopening an engine on the directory it has flushed.      *)
(*                                                                         *)
(* Conventions.  An Option<T> is a set with at most one element.  A map is *)
(* a function whose DOMAIN is its key set.  A file is a sequence: the      *)
(* data file and the index file are sequences of cells (the unit in which  *)
(* offsets and sizes are counted), the meta and del files are sequences of *)
(* records.  Wall-clock conditions ("n seconds since the last save") are   *)
(* inputs of the actions.                                                  *)
(***************************************************************************)
EXTENDS Integers, Sequences, FiniteSets, TLC

VARIABLES
    docs,                 \* DocumentsManager.docs: Ulid -> Document
    deleted_docs_buffer,  \* DocumentsManager.deleted_docs_buffer
    buffer,               \* DocumentsManager.buffer (documents, meta, segment_size)
    segments,             \* DocumentsManager.segments: path -> Segment
    cur_segment,          \* DocumentsManager.cur_segment
    disk,                 \* the segment directories: path -> [data, meta, del]
    index,                \* IndexManager.index: token id -> postings
    logbuf,               \* LogsManager.buffer (index, meta, index_size)
    logdisk,              \* the files index/index and index/meta
    hasher,               \* TokenHasher.tokens_store (map, tokens, deleted)
    tokens_file,          \* the file index/tokens
    fuzzy_trie,           \* the words stored in the trie
    avg_doc_len,          \* SearchMeta.data.avg_doc_len
    meta_file,            \* the file meta at the root
    next_ulid,            \* the next value of the monotonic ULID generator
    clock,                \* the next nanosecond timestamp (names the segments)
    bodyOf,               \* history: the body each add was given
    removed,              \* history: the live documents delete was called on
    flushed,              \* history: flush ran and no add or delete of a document since
    probe                 \* the call under study in the specifications of single functions

engine == << docs, deleted_docs_buffer, buffer, segments, cur_segment, disk,
             index, logbuf, logdisk, hasher, tokens_file, fuzzy_trie,
             avg_doc_len, meta_file, next_ulid, clock, bodyOf, removed, flushed >>

vars == << engine, probe >>

----------------------------------------------------------------------------
(* Bounds of the model and the configuration, scaled to cells.             *)

MaxDocs == 3
SegmentSize == 4
DocumentsBufferSize == 4
IndexBufferSize == 5

MergeRatioNum == 3
MergeRatioDen == 10
PurgeThreshold == 1000
PurgeFraction == 20

(* The corpus: a body is the sequence of its words.                        *)
Bodies == { <<"fox">>, <<"The", "dogs", "dog", "fox">> }

StopWords == { "the" }

Lower(w) == IF w = "The" THEN "the" ELSE w

Stem(w) == IF w = "dogs" THEN "dog" ELSE w

QueryTerms == { "fox", "dog", "dogs", "the" }

----------------------------------------------------------------------------
(* Maps and sequences.                                                     *)

MapPut(m, k, v) == [x \in (DOMAIN m) \cup {k} |-> IF x = k THEN v ELSE m[x]]

MapDel(m, k) == [x \in (DOMAIN m) \ {k} |-> m[x]]

EmptyMap == [x \in {} |-> 0]

Range(s) == { s[i] : i \in DOMAIN s }

Orders(S) == { s \in [1..Cardinality(S) -> S] : \A i, j \in DOMAIN s : i # j => s[i] # s[j] }

RECURSIVE SetToSeq(_)
SetToSeq(S) == IF S = {} THEN << >>
               ELSE LET m == CHOOSE x \in S : \A y \in S : x <= y
                    IN << m >> \o SetToSeq(S \ {m})

Slice(s, off, size) == SubSeq(s, off + 1, off + size)

RECURSIVE GCD(_, _)
GCD(a, b) == IF b = 0 THEN a ELSE GCD(b, a % b)

Abs(x) == IF x < 0 THEN -x ELSE x

----------------------------------------------------------------------------
(* f64 values of avg_doc_len, kept exact: a rational n/d in lowest terms,  *)
(* an infinity with its sign, or NaN.                                      *)

Rat(n, d) == LET g == GCD(Abs(n), Abs(d))
                 s == IF d < 0 THEN -1 ELSE 1
             IN [k |-> "num", n |-> (s * n) \div g, d |-> (s * d) \div g]

NaN == [k |-> "nan", n |-> 0, d |-> 1]

Inf(s) == [k |-> "inf", n |-> s, d |-> 1]

Sign(x) == IF x > 0 THEN 1 ELSE IF x < 0 THEN -1 ELSE 0

(* The arithmetic of SearchMeta::update_avg_doc_len:                       *)
(* (avg * docs_num + new_doc_len) / docs_num_after, as IEEE 754 divides.   *)
AvgUpdate(avg, docs_num, docs_num_after, new_doc_len) ==
    IF avg.k = "nan" THEN NaN
    ELSE IF avg.k = "inf"
         THEN IF docs_num = 0 THEN NaN ELSE avg
    ELSE LET num == avg.n * docs_num + new_doc_len * avg.d
         IN IF docs_num_after = 0
            THEN IF num = 0 THEN NaN ELSE Inf(Sign(num))
            ELSE Rat(num, avg.d * docs_num_after)

----------------------------------------------------------------------------
(* Token hasher (utils/hasher.rs).  tokens is a Vec<Option<String>>; the   *)
(* code indexes it from 0, a TLA+ sequence is indexed from 1.              *)

HasherEmpty == [map |-> EmptyMap, tokens |-> << >>, deleted |-> << >>]

(* TokenHasher::hash *)
HasherHash(h, token) == IF token \in DOMAIN h.map THEN {h.map[token]} ELSE {}

(* contains(token): hash(token) is Some *)
HasherContains(h, token) == HasherHash(h, token) # {}

(* tokens.get(token as usize) *)
HasherUnhash(h, id) == IF id < Len(h.tokens) THEN h.tokens[id + 1] ELSE {}

(* TokenHasher::add without its save(): the store after the call and the id *)
HasherAdd(h, token) ==
    IF token \in DOMAIN h.map
    THEN [h |-> h, id |-> h.map[token], changed |-> FALSE]
    ELSE IF h.deleted # << >>
         THEN LET idx == h.deleted[Len(h.deleted)]
              IN [h |-> [map |-> MapPut(h.map, token, idx),
                         tokens |-> [h.tokens EXCEPT ![idx + 1] = {token}],
                         deleted |-> SubSeq(h.deleted, 1, Len(h.deleted) - 1)],
                  id |-> idx, changed |-> TRUE]
         ELSE LET toks == Append(h.tokens, {token})
              IN [h |-> [map |-> MapPut(h.map, token, Len(toks)),
                         tokens |-> toks,
                         deleted |-> h.deleted],
                  id |-> Len(toks), changed |-> TRUE]

(* TokenHasher::delete without its save(): the store and the token taken *)
HasherDelete(h, id) ==
    IF id < Len(h.tokens) /\ h.tokens[id + 1] # {}
    THEN LET token_str == CHOOSE t \in h.tokens[id + 1] : TRUE
         IN [h |-> [map |-> MapDel(h.map, token_str),
                    tokens |-> [h.tokens EXCEPT ![id + 1] = {}],
                    deleted |-> Append(h.deleted, id)],
             token |-> {token_str}, changed |-> TRUE]
    ELSE [h |-> h, token |-> {}, changed |-> FALSE]

----------------------------------------------------------------------------
(* Analyser (analysis/tokenizer.rs).                                       *)

RECURSIVE TokenizeFrom(_, _, _, _)
TokenizeFrom(doc, k, i, tokens) ==
    IF k > Len(doc) THEN [n |-> i, map |-> tokens]
    ELSE LET word == Lower(doc[k])
         IN IF word \in StopWords
            THEN TokenizeFrom(doc, k + 1, i, tokens)
            ELSE LET w == Stem(word)
                     old == IF w \in DOMAIN tokens THEN tokens[w] ELSE << >>
                 IN TokenizeFrom(doc, k + 1, i + 1, MapPut(tokens, w, Append(old, i)))

(* Tokenizer::tokenize_doc: (token count, stem -> ascending positions) *)
TokenizeDoc(doc) == TokenizeFrom(doc, 1, 0, EmptyMap)

(* Tokenizer::tokenize_query for a query of one term with fuzziness 0:   *)
(* the terms that are left, each stemmed                                  *)
TokenizeQuery(term) == IF term \in StopWords THEN << >> ELSE << Stem(term) >>

----------------------------------------------------------------------------
(* Document store (storage/documents.rs).  A body takes one cell per word, *)
(* after the length prefix; the codec is lossless on what it compressed.   *)

Compress(content) == << [len |-> Len(content)] >> \o [i \in 1..Len(content) |-> [w |-> content[i]]]

(* decompress_size_prepended: the body, or nothing when the block is bad *)
Decompress(buf) ==
    IF Len(buf) >= 1 /\ buf[1] = [len |-> Len(buf) - 1]
       /\ \A i \in 2..Len(buf) : DOMAIN buf[i] = {"w"}
    THEN { [i \in 1..(Len(buf) - 1) |-> buf[i + 1].w] }
    ELSE {}

BufferNew == [segment_size |-> {}, documents |-> << >>, meta |-> << >>]

SegmentNew(ts) == [name |-> ts, size |-> 0, deleted |-> 0]

SegmentDirNew == [data |-> << >>, meta |-> << >>, del |-> << >>]

(* Buffer::segment_size: the cached size, else the length of the data file *)
BufSegmentSize(b, dk, seg) ==
    IF b.segment_size # {} THEN CHOOSE s \in b.segment_size : TRUE ELSE Len(dk[seg].data)

BufCacheSize(b, dk, seg) == [b EXCEPT !.segment_size = {BufSegmentSize(b, dk, seg)}]

(* The state of the store as one record, threaded through the helpers.    *)
Store == [docs |-> docs, deleted_docs_buffer |-> deleted_docs_buffer, buffer |-> buffer,
          segments |-> segments, cur_segment |-> cur_segment, disk |-> disk, clock |-> clock]

(* A faulty flush that writes the buffer over the files of the segment     *)
DmFlushOverwrites(st) ==
    [st EXCEPT !.disk[st.cur_segment].data = st.buffer.documents,
               !.disk[st.cur_segment].meta = st.buffer.meta,
               !.buffer = BufferNew]

(* DocumentsManager::flush *)
DmFlush(st) ==
    [st EXCEPT !.disk[st.cur_segment].data = @ \o st.buffer.documents,
               !.disk[st.cur_segment].meta = @ \o st.buffer.meta,
               !.buffer = BufferNew]

(* DocumentsManager::save_buffer; elapsed: documents_save_after_seconds passed *)
DmSaveBuffer(st, segment_size, elapsed) ==
    LET s1 == IF st.cur_segment \in DOMAIN st.segments
              THEN [st EXCEPT !.segments[st.cur_segment].size = segment_size]
              ELSE st
        s2 == IF Len(s1.buffer.documents) > DocumentsBufferSize \/ elapsed
              THEN DmFlush(s1) ELSE s1
    IN IF segment_size > SegmentSize
       THEN LET s3 == DmFlush(s2)
                path == s3.clock
            IN [s3 EXCEPT !.disk = MapPut(s3.disk, path, SegmentDirNew),
                          !.segments = MapPut(s3.segments, path, SegmentNew(path)),
                          !.buffer = BufferNew,
                          !.cur_segment = path,
                          !.clock = path + 1]
       ELSE s2

(* A faulty write that takes the size of the segment as the offset and     *)
(* leaves out the offset of the block inside the buffer                    *)
DmWriteAtSegmentSize(st, id, len, tokens, content, elapsed) ==
    LET block == Compress(content)
        size == Len(block)
        b1 == BufCacheSize([st.buffer EXCEPT !.documents = @ \o block], st.disk, st.cur_segment)
        offset == BufSegmentSize(b1, st.disk, st.cur_segment)
        doc == [id |-> id,
                location |-> [segment |-> st.cur_segment, offset |-> offset, size |-> size],
                len |-> len, tokens |-> tokens]
        b2 == [b1 EXCEPT !.meta = Append(@, doc)]
        s1 == DmSaveBuffer([st EXCEPT !.buffer = b2], offset + size, elapsed)
    IN [s1 EXCEPT !.docs = MapPut(s1.docs, id, doc)]

(* DocumentsManager::write *)
DmWrite(st, id, len, tokens, content, elapsed) ==
    LET data_offset == Len(st.buffer.documents)
        block == Compress(content)
        size == Len(block)
        b1 == BufCacheSize([st.buffer EXCEPT !.documents = @ \o block], st.disk, st.cur_segment)
        offset == BufSegmentSize(b1, st.disk, st.cur_segment) + data_offset
        doc == [id |-> id,
                location |-> [segment |-> st.cur_segment, offset |-> offset, size |-> size],
                len |-> len, tokens |-> tokens]
        b2 == [b1 EXCEPT !.meta = Append(@, doc)]
        s1 == DmSaveBuffer([st EXCEPT !.buffer = b2], offset + size, elapsed)
    IN [s1 EXCEPT !.docs = MapPut(s1.docs, id, doc)]

(* A faulty delete that writes no tombstone to the segment's del file *)
DmDeleteNoTombstone(st, id) ==
    IF id \notin DOMAIN st.docs THEN st
    ELSE [st EXCEPT !.docs = MapDel(st.docs, id),
                    !.deleted_docs_buffer = MapPut(st.deleted_docs_buffer, id, st.docs[id])]

(* A faulty delete that leaves the document in the live map *)
DmDeleteKeepsLive(st, id) ==
    IF id \notin DOMAIN st.docs THEN st
    ELSE LET doc == st.docs[id]
             seg == doc.location.segment
         IN [st EXCEPT !.disk[seg].del = Append(@, [id |-> doc.id, size |-> doc.location.size]),
                       !.deleted_docs_buffer = MapPut(st.deleted_docs_buffer, id, doc)]

(* A faulty delete that finds the document in the deleted-docs buffer when *)
(* the live map does not have it, and records it once more                 *)
DmDeleteAgain(st, id) ==
    IF id \notin DOMAIN st.docs /\ id \notin DOMAIN st.deleted_docs_buffer THEN st
    ELSE LET doc == IF id \in DOMAIN st.docs THEN st.docs[id] ELSE st.deleted_docs_buffer[id]
             seg == doc.location.segment
             s1 == IF seg \in DOMAIN st.disk
                   THEN [st EXCEPT !.disk[seg].del =
                                       Append(@, [id |-> doc.id, size |-> doc.location.size])]
                   ELSE st
             s2 == IF seg \in DOMAIN s1.segments
                   THEN [s1 EXCEPT !.segments[seg].deleted = @ + doc.location.size]
                   ELSE s1
         IN [s2 EXCEPT !.docs = MapDel(s2.docs, id),
                       !.deleted_docs_buffer = MapPut(s2.deleted_docs_buffer, id, doc)]

(* DocumentsManager::delete *)
DmDelete(st, id) ==
    IF id \notin DOMAIN st.docs THEN st
    ELSE LET doc == st.docs[id]
             seg == doc.location.segment
             s1 == [st EXCEPT !.disk[seg].del = Append(@, [id |-> doc.id, size |-> doc.location.size])]
             s2 == IF seg \in DOMAIN s1.segments
                   THEN [s1 EXCEPT !.segments[seg].deleted = @ + doc.location.size]
                   ELSE s1
         IN [s2 EXCEPT !.docs = MapDel(s2.docs, id),
                       !.deleted_docs_buffer = MapPut(s2.deleted_docs_buffer, id, doc)]

(* Document::content: the body read back through the location, or nothing *)
(* when the read or the decompression fails                                *)
Content(doc, dk) ==
    LET loc == doc.location
    IN IF loc.segment \in DOMAIN dk /\ loc.offset + loc.size <= Len(dk[loc.segment].data)
       THEN Decompress(Slice(dk[loc.segment].data, loc.offset, loc.size))
       ELSE {}

(* The loop of DocumentsManager::merge_segment over the meta entries of    *)
(* the segment, from entry k on.  r.elapsed: the save interval passes      *)
(* before the next save_buffer; r.failed: a read failed and the call       *)
(* returned the error.                                                     *)
RECURSIVE DmMoveDocs(_, _, _, _)
DmMoveDocs(r, path, deletes, k) ==
    LET st == r.st
        meta == st.disk[path].meta
    IN IF r.failed \/ k > Len(meta) THEN r
       ELSE LET old == meta[k]
            IN IF old.id \in deletes THEN DmMoveDocs(r, path, deletes, k + 1)
               ELSE IF old.location.offset + old.location.size > Len(st.disk[path].data)
                    THEN [r EXCEPT !.failed = TRUE]
               ELSE LET offset == Len(st.buffer.documents)
                        bytes == Slice(st.disk[path].data, old.location.offset, old.location.size)
                        b1 == BufCacheSize([st.buffer EXCEPT !.documents = @ \o bytes],
                                           st.disk, st.cur_segment)
                        doc == [old EXCEPT !.location.segment = st.cur_segment,
                                           !.location.offset =
                                               BufSegmentSize(b1, st.disk, st.cur_segment) + offset]
                        b2 == [b1 EXCEPT !.meta = Append(@, doc)]
                        s1 == [st EXCEPT !.buffer = b2, !.docs = MapPut(st.docs, doc.id, doc)]
                        segment_size == BufSegmentSize(b2, st.disk, st.cur_segment) + Len(b2.documents)
                        s2 == DmSaveBuffer(s1, segment_size, r.elapsed)
                    IN DmMoveDocs([st |-> s2, elapsed |-> FALSE, failed |-> FALSE],
                                  path, deletes, k + 1)

(* A faulty merge_segment that removes the segment without moving its     *)
(* live documents                                                          *)
DmMergeSegmentDropsDocs(st, path, segment, elapsed) ==
    IF path = st.cur_segment
       \/ segment.size = 0
       \/ segment.deleted * MergeRatioDen < MergeRatioNum * segment.size
    THEN [st |-> st, merged |-> FALSE, failed |-> FALSE, elapsed |-> elapsed]
    ELSE [st |-> [st EXCEPT !.disk = MapDel(st.disk, path),
                            !.segments = MapDel(st.segments, path)],
          merged |-> TRUE, failed |-> FALSE, elapsed |-> elapsed]

(* DocumentsManager::merge_segment: r.merged is its result *)
DmMergeSegment(st, path, segment, elapsed) ==
    IF path = st.cur_segment
       \/ segment.size = 0
       \/ segment.deleted * MergeRatioDen < MergeRatioNum * segment.size
    THEN [st |-> st, merged |-> FALSE, failed |-> FALSE, elapsed |-> elapsed]
    ELSE LET deletes == { st.disk[path].del[i].id : i \in DOMAIN st.disk[path].del }
             r == DmMoveDocs([st |-> st, elapsed |-> elapsed, failed |-> FALSE], path, deletes, 1)
         IN IF r.failed
            THEN [st |-> r.st, merged |-> FALSE, failed |-> TRUE, elapsed |-> r.elapsed]
            ELSE [st |-> [r.st EXCEPT !.disk = MapDel(r.st.disk, path),
                                      !.segments = MapDel(r.st.segments, path)],
                  merged |-> TRUE, failed |-> FALSE, elapsed |-> r.elapsed]

(* The loop of DocumentsManager::merge over the segments sorted by name:   *)
(* merged || merge_segment(..) calls merge_segment only while merged is    *)
(* still false.                                                            *)
RECURSIVE DmMergeLoop(_, _, _, _)
DmMergeLoop(r, snapshot, names, k) ==
    IF r.failed \/ k > Len(names) THEN r
    ELSE IF r.merged THEN DmMergeLoop(r, snapshot, names, k + 1)
    ELSE DmMergeLoop(DmMergeSegment(r.st, names[k], snapshot[names[k]], r.elapsed),
                     snapshot, names, k + 1)

(* DocumentsManager::merge *)
DmMerge(st, elapsed) ==
    LET r == DmMergeLoop([st |-> st, merged |-> FALSE, failed |-> FALSE, elapsed |-> elapsed],
                         st.segments, SetToSeq(DOMAIN st.segments), 1)
    IN IF r.failed THEN r.st
       ELSE IF r.merged THEN DmFlush(r.st) ELSE r.st

RECURSIVE SumSizes(_, _)
SumSizes(del, k) == IF k > Len(del) THEN 0 ELSE del[k].size + SumSizes(del, k + 1)

(* DocumentsManager::segments: what the scan of one segment directory finds *)
DmScanSegment(dk, path) ==
    [name |-> path, size |-> Len(dk[path].data), deleted |-> SumSizes(dk[path].del, 1)]

RECURSIVE DmLoadDocs(_, _, _, _)
DmLoadDocs(dk, names, k, documents) ==
    IF k > Len(names) THEN documents
    ELSE LET path == names[k]
             deletes == { dk[path].del[i].id : i \in DOMAIN dk[path].del }
             live == { i \in DOMAIN dk[path].meta : dk[path].meta[i].id \notin deletes }
             ids == { dk[path].meta[i].id : i \in live }
             entry(id) == dk[path].meta[CHOOSE i \in live :
                              /\ dk[path].meta[i].id = id
                              /\ \A j \in live : dk[path].meta[j].id = id => j <= i]
         IN DmLoadDocs(dk, names, k + 1,
                       [id \in (DOMAIN documents) \cup ids |->
                            IF id \in ids THEN entry(id) ELSE documents[id]])

(* DocumentsManager::load *)
DmLoad(dk, clk) ==
    IF DOMAIN dk = {}
    THEN [docs |-> EmptyMap, deleted_docs_buffer |-> EmptyMap, buffer |-> BufferNew,
          segments |-> MapPut(EmptyMap, clk, SegmentNew(clk)), cur_segment |-> clk,
          disk |-> MapPut(EmptyMap, clk, SegmentDirNew), clock |-> clk + 1]
    ELSE [docs |-> DmLoadDocs(dk, SetToSeq(DOMAIN dk), 1, EmptyMap),
          deleted_docs_buffer |-> EmptyMap, buffer |-> BufferNew,
          segments |-> [path \in DOMAIN dk |-> DmScanSegment(dk, path)],
          cur_segment |-> CHOOSE p \in DOMAIN dk : \A q \in DOMAIN dk : q <= p,
          disk |-> dk, clock |-> clk]

----------------------------------------------------------------------------
(* Index log (index.rs).  A payload is a header cell, followed for an ADD  *)
(* by one cell holding the posting.                                         *)

DELETE == 0
ADD == 1

LogHeader(operation, token, postings_num) ==
    [operation |-> operation, token |-> token, postings_num |-> postings_num]

(* AddLog::encode_into_vec / DeleteLog::encode_into_vec *)
AddLog(token, postings_num, posting) == << LogHeader(ADD, token, postings_num), posting >>

DeleteLog(token, postings_num) == << LogHeader(DELETE, token, postings_num) >>

LogBufferNew == [index_size |-> {}, index |-> << >>, meta |-> << >>]

LogFilesNew == [index |-> << >>, meta |-> << >>]

(* The log as one record: the buffer and the two files *)
Log == [buf |-> logbuf, disk |-> logdisk]

(* A faulty flush that appends the buffer to the files and keeps it *)
LogFlushKeepsBuffer(lg) ==
    [buf |-> lg.buf,
     disk |-> [index |-> lg.disk.index \o lg.buf.index, meta |-> lg.disk.meta \o lg.buf.meta]]

(* Buffer::flush *)
LogFlush(lg) ==
    [buf |-> LogBufferNew,
     disk |-> [index |-> lg.disk.index \o lg.buf.index, meta |-> lg.disk.meta \o lg.buf.meta]]

(* LogsManager::write over Buffer::write *)
LogWrite(lg, doc_id, payload) ==
    LET offset == Len(lg.buf.index)
        index_size == IF lg.buf.index_size # {} THEN CHOOSE x \in lg.buf.index_size : TRUE
                      ELSE Len(lg.disk.index)
        meta == [id |-> doc_id, offset |-> index_size + offset, size |-> Len(payload)]
        l1 == [lg EXCEPT !.buf = [index_size |-> {index_size},
                                  index |-> lg.buf.index \o payload,
                                  meta |-> Append(lg.buf.meta, meta)]]
    IN IF Len(l1.buf.index) > IndexBufferSize THEN LogFlush(l1) ELSE l1

Postings(ix, token) == IF token \in DOMAIN ix THEN ix[token] ELSE << >>

(* IndexManager::insert: r.ix the index, r.lg the log *)
IndexInsert(ix, lg, token, posting) ==
    LET postings == Postings(ix, token)
        log == AddLog(token, Len(postings) + 1, posting)
    IN [ix |-> MapPut(ix, token, Append(postings, posting)),
        lg |-> LogWrite(lg, posting.doc_id, log)]

(* postings.retain(..) of IndexManager::delete from posting k on: the kept *)
(* postings and the log, one DELETE record per removed posting             *)
RECURSIVE Retain(_, _, _, _, _, _)
Retain(r, postings, token, document_ids, len, k) ==
    IF k > Len(postings) THEN r
    ELSE IF postings[k].doc_id \in document_ids
         THEN Retain([kept |-> r.kept, deleted |-> r.deleted + 1,
                      lg |-> LogWrite(r.lg, postings[k].doc_id,
                                      DeleteLog(token, len - (r.deleted + 1)))],
                     postings, token, document_ids, len, k + 1)
         ELSE Retain([r EXCEPT !.kept = Append(@, postings[k])],
                     postings, token, document_ids, len, k + 1)

(* IndexManager::delete over the tokens in the order the set yields them.  *)
(* r: ix, lg, hasher, trie, tokens_file; r.due: the hasher's save is due   *)
RECURSIVE IndexDelete(_, _, _, _)
IndexDelete(r, tokens, document_ids, k) ==
    IF k > Len(tokens) THEN r
    ELSE LET token == tokens[k]
         IN IF token \notin DOMAIN r.ix THEN IndexDelete(r, tokens, document_ids, k + 1)
            ELSE LET postings == r.ix[token]
                     kept == Retain([kept |-> << >>, deleted |-> 0, lg |-> r.lg],
                                    postings, token, document_ids, Len(postings), 1)
                 IN IF Len(kept.kept) = 0
                    THEN LET hd == HasherDelete(r.hasher, token)
                             saved == hd.changed /\ r.due
                         IN IndexDelete([ix |-> MapDel(r.ix, token),
                                         lg |-> kept.lg,
                                         hasher |-> hd.h,
                                         trie |-> r.trie \ hd.token,
                                         tokens_file |-> IF saved THEN {hd.h} ELSE r.tokens_file,
                                         due |-> r.due /\ ~saved],
                                        tokens, document_ids, k + 1)
                    ELSE IndexDelete([r EXCEPT !.ix = MapPut(r.ix, token, kept.kept),
                                               !.lg = kept.lg],
                                     tokens, document_ids, k + 1)

PostingDefault == [doc_id |-> 0, positions |-> << >>]

(* One step of the loop of LogsManager::load on the record meta[k].  The    *)
(* cursor of a token is a usize.  checks: the build has overflow checks on  *)
(* (the debug profile), where taking 1 from 0 panics; without them (the     *)
(* release profile) it wraps, and storing at a wrapped cursor is out of     *)
(* bounds.  or_insert evaluates postings_num - 1 for every record.          *)
ReplayStep(r, lgd, k, checks) ==
    LET meta == lgd.meta[k]
    IN IF meta.offset + meta.size > Len(lgd.index) \/ meta.size = 0
       THEN [r EXCEPT !.status = "error"]
       ELSE
       LET bytes == Slice(lgd.index, meta.offset, meta.size)
           header == bytes[1]
           token == header.token
           fresh == token \notin DOMAIN r.cur
           cur0 == IF fresh
                   THEN [v |-> header.postings_num - 1, wrapped |-> header.postings_num = 0]
                   ELSE r.cur[token]
           r1 == [r EXCEPT !.cur = MapPut(r.cur, token, cur0),
                           !.underflow = @ \/ header.postings_num = 0]
           r2 == IF token \in DOMAIN r1.index THEN r1
                 ELSE [r1 EXCEPT !.index = MapPut(r1.index, token,
                                               [i \in 1..header.postings_num |-> PostingDefault]),
                                 !.empty_postings = IF header.postings_num = 0
                                                    THEN Append(@, token) ELSE @]
       IN IF checks /\ header.postings_num = 0
          THEN [r1 EXCEPT !.status = "panic"]
          ELSE IF header.operation = ADD
          THEN IF meta.id \in r2.deleted THEN r2
               ELSE IF cur0.wrapped \/ cur0.v >= Len(r2.index[token])
                    THEN [r2 EXCEPT !.status = "panic"]
                    ELSE [r2 EXCEPT !.index[token][cur0.v + 1] = bytes[2],
                                    !.cur[token] = [v |-> cur0.v - 1, wrapped |-> cur0.v = 0],
                                    !.underflow = @ \/ cur0.v = 0,
                                    !.status = IF checks /\ cur0.v = 0 THEN "panic" ELSE @]
          ELSE [r2 EXCEPT !.deleted = @ \cup {meta.id}]

RECURSIVE ReplayFrom(_, _, _, _)
ReplayFrom(r, lgd, k, checks) ==
    IF k < 1 \/ r.status # "ok" THEN r
    ELSE ReplayFrom(ReplayStep(r, lgd, k, checks), lgd, k - 1, checks)

(* LogsManager::load with ReadDirection::BACKWARD: r.index is the result   *)
LogsLoad(lgd, checks) ==
    LET r == ReplayFrom([index |-> EmptyMap, cur |-> EmptyMap, deleted |-> {},
                         empty_postings |-> << >>, status |-> "ok", underflow |-> FALSE],
                        lgd, Len(lgd.meta), checks)
    IN [r EXCEPT !.index = [t \in (DOMAIN r.index) \ Range(r.empty_postings) |-> r.index[t]]]

----------------------------------------------------------------------------
(* Search (core/search.rs, intersect.rs, mis.rs, query/scoring.rs) for a   *)
(* query of one term with fuzziness 0 and top_k = 0.                       *)

(* Trie::search(0, text): the stored words at distance 0 *)
TrieSearchExact(trie, text) == IF text \in trie THEN {text} ELSE {}

(* TokenGroupIterator::add_token_positions: the tf kept with the positions *)
(* is the length of the iterator after its first element was taken         *)
MisTf(positions) == Len(positions) - 1

(* The sign of term_bm25 with K = 1.5, B = 0.75: the idf is the logarithm  *)
(* of a number above 1, so the score is positive exactly when              *)
(* tf * (K + 1) / (tf + K * (1 - B + B * dl / avg)) is.  The denominator   *)
(* is ((8 tf + 3) avg.n + 9 dl avg.d) / (8 avg.n).                          *)
TermScorePositive(tf, doc_length, avg) ==
    IF avg.k = "nan" THEN FALSE
    ELSE IF avg.k = "inf" THEN tf > 0
    ELSE IF avg.n = 0 THEN FALSE
    ELSE tf > 0 /\ Sign((8 * tf + 3) * avg.n + 9 * doc_length * avg.d) * Sign(avg.n) >= 0

(* The pointers the intersector yields for one document: the postings of   *)
(* the token that carry its id                                             *)
Group(postings, doc_id) == { i \in DOMAIN postings : postings[i].doc_id = doc_id }

(* The doc_length Search::search passes to bm25 and max_bm25 reads for a   *)
(* candidate: doc.tokens.len()                                             *)
ScoreDocLength(doc_id) == Len(docs[doc_id].tokens)

(* The body of the loop of Search::search for one candidate: whether the   *)
(* document is pushed onto the heap                                        *)
Scored(doc_id, postings) ==
    /\ doc_id \notin DOMAIN deleted_docs_buffer
    /\ doc_id \in DOMAIN docs
    /\ \E i \in Group(postings, doc_id) :
           TermScorePositive(MisTf(postings[i].positions), ScoreDocLength(doc_id), avg_doc_len)

(* Search::search: r.ids the documents returned; r.status is "panic" when  *)
(* an unwrap or an index fails                                             *)
Search(term) ==
    LET query == TokenizeQuery(Lower(term))
    IN IF query = << >> THEN [status |-> "panic", ids |-> {}]
       ELSE LET words == TrieSearchExact(fuzzy_trie, query[1])
                tokens == UNION { HasherHash(hasher, w) : w \in words }
                found == tokens \cap DOMAIN index
            IN IF found = {} THEN [status |-> "ok", ids |-> {}]
               ELSE LET postings == index[CHOOSE t \in found : TRUE]
                        candidates == { postings[i].doc_id : i \in DOMAIN postings }
                    IN IF postings = << >>
                          \/ \E d \in candidates :
                                 d \notin DOMAIN deleted_docs_buffer /\ d \notin DOMAIN docs
                       THEN [status |-> "panic", ids |-> {}]
                       ELSE [status |-> "ok",
                             ids |-> { d \in candidates : Scored(d, postings) } \cap DOMAIN docs]

(* A faulty get that also looks in the deleted-docs buffer *)
GetAlsoBuffered(id) ==
    IF id \in DOMAIN docs THEN {docs[id]}
    ELSE IF id \in DOMAIN deleted_docs_buffer THEN {deleted_docs_buffer[id]} ELSE {}

(* Search::get: the document, or nothing for the not-found error *)
Get(id) == IF id \in DOMAIN docs THEN {docs[id]} ELSE {}

----------------------------------------------------------------------------
(* The public operations (core/search.rs).                                 *)

(* The loop of Search::add over tokens_map, in the order the map yields    *)
(* its entries.  r.due: the hasher's save is due.                          *)
RECURSIVE AddTokens(_, _, _, _, _)
AddTokens(r, order, tokens_map, doc_id, k) ==
    IF k > Len(order) THEN r
    ELSE LET token == order[k]
             trie == IF ~HasherContains(r.hasher, token) THEN r.trie \cup {token} ELSE r.trie
             ha == HasherAdd(r.hasher, token)
             saved == ha.changed /\ r.due
             posting == [doc_id |-> doc_id, positions |-> tokens_map[token]]
             ins == IndexInsert(r.ix, r.lg, ha.id, posting)
         IN AddTokens([ix |-> ins.ix, lg |-> ins.lg, hasher |-> ha.h, trie |-> trie,
                       tokens_file |-> IF saved THEN {ha.h} ELSE r.tokens_file,
                       due |-> r.due /\ ~saved,
                       tokens |-> Append(r.tokens, ha.id)],
                      order, tokens_map, doc_id, k + 1)

(* Search::add.  metaDue, hashDue, docsDue: the save of the metadata, of   *)
(* the hasher, of the documents buffer is due (operations or seconds)      *)
Add(doc, order, metaDue, hashDue, docsDue) ==
    /\ next_ulid <= MaxDocs
    /\ LET doc_id == next_ulid
           tk == TokenizeDoc(doc)
           avg == AvgUpdate(avg_doc_len, Cardinality(DOMAIN docs),
                            Cardinality(DOMAIN docs) + 1, tk.n)
           r == AddTokens([ix |-> index, lg |-> Log, hasher |-> hasher, trie |-> fuzzy_trie,
                           tokens_file |-> tokens_file, due |-> hashDue, tokens |-> << >>],
                          order, tk.map, doc_id, 1)
           st == DmWrite(Store, doc_id, tk.n, r.tokens, doc, docsDue)
       IN /\ avg_doc_len' = avg
          /\ meta_file' = IF metaDue THEN {avg} ELSE meta_file
          /\ index' = r.ix
          /\ logbuf' = r.lg.buf
          /\ logdisk' = r.lg.disk
          /\ hasher' = r.hasher
          /\ fuzzy_trie' = r.trie
          /\ tokens_file' = r.tokens_file
          /\ docs' = st.docs
          /\ deleted_docs_buffer' = st.deleted_docs_buffer
          /\ buffer' = st.buffer
          /\ segments' = st.segments
          /\ cur_segment' = st.cur_segment
          /\ disk' = st.disk
          /\ clock' = st.clock
          /\ next_ulid' = next_ulid + 1
          /\ bodyOf' = MapPut(bodyOf, doc_id, doc)
          /\ flushed' = FALSE
          /\ UNCHANGED << removed, probe >>

RECURSIVE SumLen(_, _)
SumLen(m, ids) == IF ids = {} THEN 0
                  ELSE LET id == CHOOSE x \in ids : TRUE
                       IN m[id].len + SumLen(m, ids \ {id})

(* Search::force_delete on the store st; the primed variables it sets      *)
ForceDelete(st, order, metaDue, hashDue) ==
    LET deleted_docs_num == Cardinality(DOMAIN st.deleted_docs_buffer)
        document_ids == DOMAIN st.deleted_docs_buffer
        deleted_len_sum == SumLen(st.deleted_docs_buffer, document_ids)
        avg == AvgUpdate(avg_doc_len, Cardinality(DOMAIN st.docs) + deleted_docs_num,
                         Cardinality(DOMAIN st.docs), -1 * deleted_len_sum)
        r == IndexDelete([ix |-> index, lg |-> Log, hasher |-> hasher, trie |-> fuzzy_trie,
                          tokens_file |-> tokens_file, due |-> hashDue],
                         order, document_ids, 1)
    IN [st |-> [st EXCEPT !.deleted_docs_buffer = EmptyMap],
        avg |-> avg, meta_file |-> IF metaDue THEN {avg} ELSE meta_file,
        ix |-> r.ix, lg |-> r.lg, hasher |-> r.hasher, trie |-> r.trie,
        tokens_file |-> r.tokens_file]

(* The token ids of the documents awaiting the purge *)
PendingTokens(st) ==
    UNION { Range(st.deleted_docs_buffer[id].tokens) : id \in DOMAIN st.deleted_docs_buffer }

SetStore(st) ==
    /\ docs' = st.docs
    /\ deleted_docs_buffer' = st.deleted_docs_buffer
    /\ buffer' = st.buffer
    /\ segments' = st.segments
    /\ cur_segment' = st.cur_segment
    /\ disk' = st.disk
    /\ clock' = st.clock

(* A variant of the test that purges already at the bound *)
DeleteDefersBelow(buffer_len, docs_len) ==
    buffer_len < docs_len \div PurgeFraction \/ buffer_len < PurgeThreshold

(* The test of Search::delete that returns before force_delete *)
DeleteDefers(buffer_len, docs_len) ==
    buffer_len <= docs_len \div PurgeFraction \/ buffer_len <= PurgeThreshold

(* Search::delete *)
Delete(id) ==
    /\ id \in 1..(next_ulid - 1)
    /\ LET st == DmDelete(Store, id)
           pending == Cardinality(DOMAIN st.deleted_docs_buffer)
       IN IF DeleteDefers(pending, Cardinality(DOMAIN st.docs))
          THEN /\ SetStore(st)
               /\ UNCHANGED << index, logbuf, logdisk, hasher, tokens_file, fuzzy_trie,
                               avg_doc_len, meta_file >>
          ELSE \E order \in Orders(PendingTokens(st)), metaDue, hashDue \in BOOLEAN :
                   LET f == ForceDelete(st, order, metaDue, hashDue)
                   IN /\ SetStore(f.st)
                      /\ avg_doc_len' = f.avg
                      /\ meta_file' = f.meta_file
                      /\ index' = f.ix
                      /\ logbuf' = f.lg.buf
                      /\ logdisk' = f.lg.disk
                      /\ hasher' = f.hasher
                      /\ fuzzy_trie' = f.trie
                      /\ tokens_file' = f.tokens_file
    /\ removed' = IF id \in DOMAIN docs THEN removed \cup {id} ELSE removed
    /\ flushed' = (flushed /\ id \notin DOMAIN docs)
    /\ UNCHANGED << next_ulid, bodyOf, probe >>

(* Search::flush *)
Flush(order) ==
    /\ LET f == ForceDelete(Store, order, FALSE, FALSE)
           st == DmFlush(f.st)
           lg == LogFlush(f.lg)
       IN /\ SetStore(st)
          /\ avg_doc_len' = f.avg
          /\ meta_file' = {f.avg}
          /\ index' = f.ix
          /\ logbuf' = lg.buf
          /\ logdisk' = lg.disk
          /\ hasher' = f.hasher
          /\ fuzzy_trie' = f.trie
          /\ tokens_file' = {f.hasher}
    /\ flushed' = TRUE
    /\ UNCHANGED << next_ulid, bodyOf, removed, probe >>

(* Search::merge *)
Merge(docsDue) ==
    /\ SetStore(DmMerge(Store, docsDue))
    /\ UNCHANGED << index, logbuf, logdisk, hasher, tokens_file, fuzzy_trie,
                    avg_doc_len, meta_file, next_ulid, bodyOf, removed, flushed, probe >>

(* TokensStore::load: an empty file gives the empty store *)
TokensStoreLoad(file) == IF file = {} THEN HasherEmpty ELSE CHOOSE h \in file : TRUE

(* SearchMeta::load: an empty file gives avg_doc_len = 1.0 *)
SearchMetaLoad(file) == IF file = {} THEN Rat(1, 1) ELSE CHOOSE a \in file : TRUE

(* Search::new on the directory as it is; checks: the build profile, see   *)
(* ReplayStep.  A panic in the replay of the index log leaves no engine.    *)
SearchLoad(checks) ==
    /\ LogsLoad(logdisk, checks).status = "ok"
    /\ LET h == TokensStoreLoad(tokens_file)
       IN /\ hasher' = h
          /\ fuzzy_trie' = DOMAIN h.map
    /\ index' = LogsLoad(logdisk, checks).index
    /\ logbuf' = LogBufferNew
    /\ avg_doc_len' = SearchMetaLoad(meta_file)
    /\ SetStore(DmLoad(disk, clock))
    /\ UNCHANGED << logdisk, tokens_file, meta_file, next_ulid, bodyOf, removed, flushed, probe >>

(* Search::new on the directory of an engine that was flushed and dropped *)
Open(checks) == flushed /\ SearchLoad(checks)

(* Search::new on the directory of an engine that was dropped with changes *)
(* it had not flushed: what its buffers held is lost                        *)
Reopen(checks) == ~flushed /\ SearchLoad(checks)

(* The store of an engine opened on a directory with no segment *)
SetStoreInit ==
    LET st == DmLoad(EmptyMap, 1)
    IN /\ docs = st.docs
       /\ deleted_docs_buffer = st.deleted_docs_buffer
       /\ buffer = st.buffer
       /\ segments = st.segments
       /\ cur_segment = st.cur_segment
       /\ disk = st.disk
       /\ clock = st.clock

EngineInit ==
    /\ SetStoreInit
    /\ index = EmptyMap
    /\ logbuf = LogBufferNew
    /\ logdisk = LogFilesNew
    /\ hasher = HasherEmpty
    /\ tokens_file = {}
    /\ fuzzy_trie = {}
    /\ avg_doc_len = Rat(1, 1)
    /\ meta_file = {}
    /\ next_ulid = 1
    /\ bodyOf = EmptyMap
    /\ removed = {}
    /\ flushed = FALSE

Init == EngineInit /\ probe = << >>

Next ==
    \/ \E doc \in Bodies : \E order \in Orders(DOMAIN TokenizeDoc(doc).map) :
           \E metaDue, hashDue, docsDue \in BOOLEAN : Add(doc, order, metaDue, hashDue, docsDue)
    \/ \E id \in 1..MaxDocs : Delete(id)
    \/ \E order \in Orders(PendingTokens(Store)) : Flush(order)
    \/ \E docsDue \in BOOLEAN : Merge(docsDue)
    \/ \E checks \in BOOLEAN : Open(checks)

Spec == Init /\ [][Next]_vars

----------------------------------------------------------------------------
(* The purge test of Search::delete on its own: the sizes of the           *)
(* deleted-docs buffer and of the live map around the two thresholds.       *)

ProbeSpan == 2

Max(a, b) == IF a >= b THEN a ELSE b

PurgeBufferLens ==
    (0..ProbeSpan) \cup
    UNION { (k * PurgeThreshold - ProbeSpan)..(k * PurgeThreshold + ProbeSpan) : k \in 1..2 }

PurgeDocsLens ==
    {0} \cup
    UNION { (k * PurgeThreshold * PurgeFraction - ProbeSpan)
                ..(k * PurgeThreshold * PurgeFraction + PurgeFraction + ProbeSpan) : k \in 1..2 }

InitPurge ==
    /\ EngineInit
    /\ probe \in [buffer_len : PurgeBufferLens, docs_len : PurgeDocsLens, decided : {"none"}]

(* Search::delete after documents_manager.delete: return, or force_delete *)
DeleteDecide ==
    /\ probe.decided = "none"
    /\ probe' = [probe EXCEPT !.decided =
                     IF DeleteDefers(probe.buffer_len, probe.docs_len) THEN "defer" ELSE "purge"]
    /\ UNCHANGED engine

NextPurge == DeleteDecide

SpecPurge == InitPurge /\ [][NextPurge]_vars

(* The bound of the claim: max(1000, docs.len / 20) *)
PurgeBound == Max(PurgeThreshold, probe.docs_len \div PurgeFraction)

(* C14 as the code has it: delete defers the purge while the buffer is at  *)
(* most max(1000, docs.len / 20) long and purges only above that bound.     *)
C14_DefersUpToBound ==
    probe.decided # "none" => (probe.decided = "defer" <=> probe.buffer_len <= PurgeBound)

(* C14 as stated: delete defers the purge while the buffer is shorter than *)
(* max(1000, docs.len / 20) and purges otherwise, also at the bound.        *)
C14_DefersBelowBound ==
    probe.decided # "none" => (probe.decided = "defer" <=> probe.buffer_len < PurgeBound)

(* A delete that deferred with the buffer exactly at the bound, where the  *)
(* bound is docs.len / 20                                                   *)
C14_Witness ==
    /\ probe.decided = "defer"
    /\ probe.buffer_len = PurgeBound
    /\ PurgeBound > PurgeThreshold

----------------------------------------------------------------------------
(* Search::add that returns an error.  probe is the set of the ids whose   *)
(* add returned an error after the id was generated.                        *)

FailDocs == 2

FailSteps == {"ulid", "meta", "hasher", "index", "write_meta", "save_buffer"}

(* DocumentsManager::write that returns an error: in write_meta (the body  *)
(* is in the buffer) or in save_buffer (body and record are in the buffer, *)
(* the size of the segment is set); docs.insert is not reached              *)
DmWriteFails(st, id, len, tokens, content, step) ==
    LET data_offset == Len(st.buffer.documents)
        block == Compress(content)
        size == Len(block)
        b1 == BufCacheSize([st.buffer EXCEPT !.documents = @ \o block], st.disk, st.cur_segment)
        offset == BufSegmentSize(b1, st.disk, st.cur_segment) + data_offset
        doc == [id |-> id,
                location |-> [segment |-> st.cur_segment, offset |-> offset, size |-> size],
                len |-> len, tokens |-> tokens]
        b2 == [b1 EXCEPT !.meta = Append(@, doc)]
    IN IF step = "write_meta" THEN [st EXCEPT !.buffer = b1]
       ELSE IF st.cur_segment \in DOMAIN st.segments
            THEN [st EXCEPT !.buffer = b2, !.segments[st.cur_segment].size = offset + size]
            ELSE [st EXCEPT !.buffer = b2]

(* Search::add with the `?` of step taken; k: the token at which the       *)
(* hasher save or the index log write fails                                 *)
AddFails(doc, order, step, k, metaDue, hashDue) ==
    /\ next_ulid <= FailDocs
    /\ k \in 1..Len(order)
    /\ LET doc_id == next_ulid
           tk == TokenizeDoc(doc)
           avg == AvgUpdate(avg_doc_len, Cardinality(DOMAIN docs),
                            Cardinality(DOMAIN docs) + 1, tk.n)
           start == [ix |-> index, lg |-> Log, hasher |-> hasher, trie |-> fuzzy_trie,
                     tokens_file |-> tokens_file, due |-> hashDue, tokens |-> << >>]
           before == AddTokens(start, SubSeq(order, 1, k - 1), tk.map, doc_id, 1)
           token == order[k]
           ha == HasherAdd(before.hasher, token)
           trie == IF ~HasherContains(before.hasher, token) THEN before.trie \cup {token}
                   ELSE before.trie
           saved == ha.changed /\ before.due
           all == AddTokens(start, order, tk.map, doc_id, 1)
           st == DmWriteFails(Store, doc_id, tk.n, all.tokens, doc, step)
       IN CASE step = "ulid" ->
                 /\ UNCHANGED engine
                 /\ probe' = probe
            [] step = "meta" ->
                 /\ avg_doc_len' = avg
                 /\ UNCHANGED << meta_file, index, logbuf, logdisk, hasher, fuzzy_trie,
                                 tokens_file, docs, deleted_docs_buffer, buffer, segments,
                                 cur_segment, disk, clock >>
            [] step = "hasher" ->
                 /\ ha.changed
                 /\ avg_doc_len' = avg
                 /\ meta_file' = IF metaDue THEN {avg} ELSE meta_file
                 /\ index' = before.ix
                 /\ logbuf' = before.lg.buf
                 /\ logdisk' = before.lg.disk
                 /\ hasher' = ha.h
                 /\ fuzzy_trie' = trie
                 /\ tokens_file' = before.tokens_file
                 /\ SetStore(Store)
            [] step = "index" ->
                 /\ avg_doc_len' = avg
                 /\ meta_file' = IF metaDue THEN {avg} ELSE meta_file
                 /\ index' = MapPut(before.ix, ha.id, Postings(before.ix, ha.id))
                 /\ logbuf' = before.lg.buf
                 /\ logdisk' = before.lg.disk
                 /\ hasher' = ha.h
                 /\ fuzzy_trie' = trie
                 /\ tokens_file' = IF saved THEN {ha.h} ELSE before.tokens_file
                 /\ SetStore(Store)
            [] OTHER ->
                 /\ k = Len(order)
                 /\ avg_doc_len' = avg
                 /\ meta_file' = IF metaDue THEN {avg} ELSE meta_file
                 /\ index' = all.ix
                 /\ logbuf' = all.lg.buf
                 /\ logdisk' = all.lg.disk
                 /\ hasher' = all.hasher
                 /\ fuzzy_trie' = all.trie
                 /\ tokens_file' = all.tokens_file
                 /\ SetStore(st)
    /\ step # "ulid" => /\ next_ulid' = next_ulid + 1
                        /\ probe' = probe \cup {next_ulid}
                        /\ flushed' = FALSE
                        /\ UNCHANGED << bodyOf, removed >>

InitFail == EngineInit /\ probe = {}

NextFail ==
    \/ \E doc \in Bodies : \E order \in Orders(DOMAIN TokenizeDoc(doc).map) :
           \E metaDue, hashDue, docsDue \in BOOLEAN :
               next_ulid <= FailDocs /\ Add(doc, order, metaDue, hashDue, docsDue)
    \/ \E doc \in Bodies : \E order \in Orders(DOMAIN TokenizeDoc(doc).map) :
           \E step \in FailSteps, k \in 1..Len(order), metaDue, hashDue \in BOOLEAN :
               AddFails(doc, order, step, k, metaDue, hashDue)
    \/ \E id \in 1..FailDocs : Delete(id)
    \/ \E order \in Orders(PendingTokens(Store)) : Flush(order)
    \/ \E checks \in BOOLEAN : Open(checks)

SpecFail == InitFail /\ [][NextFail]_vars

(* C15: a document whose add returned an error is not in the live map *)
C15_FailedAddNotLive == probe \cap DOMAIN docs = {}

----------------------------------------------------------------------------
(* One candidate of Search::search: the windows of the minimal interval    *)
(* semantic match (mis.rs), their BM25 scores and the bound max_bm25        *)
(* (query/scoring.rs).  Scores are exact rationals in units of the idf, for *)
(* queries whose tokens all have the same number of postings.               *)

MatchLen == 3

MatchSlop == 2

MatchWords == {"quick", "brown", "fox", "fix"}

MatchDocs == [1..MatchLen -> MatchWords]

(* Tokenized queries: per term the variants the trie gives, with distance *)
MatchQueries ==
    { << << [token |-> "fox", distance |-> 0] >> >>,
      << << [token |-> "quick", distance |-> 0] >>, << [token |-> "fox", distance |-> 0] >> >>,
      << << [token |-> "fox", distance |-> 0], [token |-> "fix", distance |-> 1] >> >>,
      << << [token |-> "quick", distance |-> 0] >>,
         << [token |-> "fox", distance |-> 0], [token |-> "fix", distance |-> 1] >> >> }

MatchAvgs == { Rat(1, 1), Rat(3, 1), Rat(-1, 1) }

(* The positions of the posting of token w for the document *)
PositionsOf(doc, w) == SetToSeq({ i - 1 : i \in { j \in DOMAIN doc : doc[j] = w } })

(* The pointers of one term that share the document: TokenDocPointer with  *)
(* its tf, the number of positions of the posting                           *)
PointerTf(positions) == Len(positions)

GroupPointers(doc, group) ==
    LET here(v) == PositionsOf(doc, v.token) # << >>
        kept == SelectSeq(group, here)
    IN [i \in DOMAIN kept |->
            [token |-> kept[i].token, distance |-> kept[i].distance,
             tf |-> PointerTf(PositionsOf(doc, kept[i].token)),
             positions |-> PositionsOf(doc, kept[i].token)]]

Pointers(doc, query) == [i \in DOMAIN query |-> GroupPointers(doc, query[i])]

(* PostingListIntersection yields the document: every term has a pointer *)
Candidate(doc, query) == \A i \in DOMAIN query : Pointers(doc, query)[i] # << >>

(* BinaryHeap<TokenPosition>::peek: the entry of the greatest position *)
HeapTop(heap) == CHOOSE e \in heap : \A f \in heap : f.position <= e.position

(* TokenGroupIterator::new and add_token_positions for each pointer *)
GroupIterator(group) ==
    [heap |-> { [position |-> group[i].positions[1], idx |-> i] : i \in DOMAIN group },
     cur |-> [i \in DOMAIN group |-> 2],
     tokens |-> [i \in DOMAIN group |->
                    [token |-> group[i].token, distance |-> group[i].distance,
                     tf |-> MisTf(group[i].positions), positions |-> group[i].positions]]]

(* TokenGroupIterator::peek *)
GroupPeek(g) == IF g.heap = {} THEN {} ELSE { HeapTop(g.heap).position }

(* positions.next() until a value above target: its index, or Len + 1 *)
RECURSIVE SkipTo(_, _, _)
SkipTo(positions, c, target) ==
    IF c > Len(positions) THEN c
    ELSE IF positions[c] > target THEN c
    ELSE SkipTo(positions, c + 1, target)

(* TokenGroupIterator::closest, without its final peek *)
RECURSIVE GroupClosest(_, _)
GroupClosest(g, target) ==
    IF g.heap # {} /\ HeapTop(g.heap).position <= target
    THEN LET pos == HeapTop(g.heap)
             positions == g.tokens[pos.idx].positions
             j == SkipTo(positions, g.cur[pos.idx], target)
         IN IF j <= Len(positions)
            THEN GroupClosest([g EXCEPT !.heap = (@ \ {pos}) \cup
                                                    {[position |-> positions[j], idx |-> pos.idx]},
                                        !.cur[pos.idx] = j + 1], target)
            ELSE GroupClosest([g EXCEPT !.heap = @ \ {pos}, !.cur[pos.idx] = j], target)
    ELSE g

(* TokenGroupIterator::next, without its final peek *)
GroupNext(g) ==
    IF g.heap # {}
    THEN LET pos == HeapTop(g.heap)
             positions == g.tokens[pos.idx].positions
             c == g.cur[pos.idx]
         IN IF c <= Len(positions)
            THEN [g EXCEPT !.heap = (@ \ {pos}) \cup {[position |-> positions[c], idx |-> pos.idx]},
                           !.cur[pos.idx] = c + 1]
            ELSE [g EXCEPT !.heap = @ \ {pos}]
    ELSE g

(* TokenGroupIterator::last_meta *)
GroupLastMeta(g) == g.tokens[HeapTop(g.heap).idx]

(* MinimalIntervalSemanticMatch::new *)
MisNew(pointers, min_slop) ==
    LET iterators == [i \in DOMAIN pointers |-> GroupIterator(pointers[i])]
    IN [iterators |-> iterators,
        window |-> [i \in DOMAIN pointers |-> HeapTop(iterators[i].heap).position],
        slops |-> [i \in DOMAIN pointers |-> 0],
        min_slop |-> min_slop,
        end |-> FALSE]

(* The inner loop of next: idx counts from 0 as in the code; stop tells    *)
(* how the loop was left                                                    *)
RECURSIVE MisScan(_, _)
MisScan(m, idx) ==
    IF idx > Len(m.iterators) - 1 THEN [m |-> m, idx |-> idx, stop |-> "done"]
    ELSE LET g == GroupClosest(m.iterators[idx + 1], m.window[idx])
             m1 == [m EXCEPT !.iterators[idx + 1] = g]
         IN IF GroupPeek(g) = {} THEN [m |-> m1, idx |-> idx, stop |-> "none"]
            ELSE LET val == HeapTop(g.heap).position
                     m2 == [m1 EXCEPT !.window[idx + 1] = val]
                     slop == m.slops[idx] + Abs(m.window[idx] - (val - 1))
                 IN IF slop > m.min_slop THEN [m |-> m2, idx |-> idx, stop |-> "break"]
                    ELSE MisScan([m2 EXCEPT !.slops[idx + 1] = slop], idx + 1)

(* The loop `while !self.end` of next, idx kept from one round to the next *)
RECURSIVE MisLoop(_, _)
MisLoop(m, idx) ==
    IF m.end THEN [m |-> m, result |-> {}]
    ELSE LET r == MisScan(m, idx)
             len == Len(m.iterators)
         IN IF r.stop = "none" THEN [m |-> r.m, result |-> {}]
            ELSE LET result == IF r.idx = len
                               THEN { [slop |-> r.m.slops[len],
                                       indexes |-> [i \in 1..len |->
                                           [token_idx |-> r.m.window[i],
                                            token |-> GroupLastMeta(r.m.iterators[i]).token,
                                            tf |-> GroupLastMeta(r.m.iterators[i]).tf,
                                            distance |-> GroupLastMeta(r.m.iterators[i]).distance]]] }
                               ELSE {}
                     g0 == GroupNext(r.m.iterators[1])
                     m3 == IF GroupPeek(g0) # {}
                           THEN [r.m EXCEPT !.iterators[1] = g0,
                                            !.window[1] = HeapTop(g0.heap).position]
                           ELSE [r.m EXCEPT !.iterators[1] = g0, !.end = TRUE]
                 IN IF result # {} THEN [m |-> m3, result |-> result]
                    ELSE MisLoop(m3, r.idx)

(* MinimalIntervalSemanticMatch::next: result is empty for None *)
MisNext(m) == MisLoop(m, 1)

(* The windows the for loop of Search::search takes, up to the first None *)
RECURSIVE MisWindows(_)
MisWindows(m) ==
    LET r == MisNext(m)
    IN IF r.result = {} THEN << >>
       ELSE << CHOOSE w \in r.result : TRUE >> \o MisWindows(r.m)

(* Exact fractions n/d with d > 0 *)
Frac(n, d) == IF d < 0 THEN [n |-> -n, d |-> -d] ELSE [n |-> n, d |-> d]

FracAdd(a, b) == [n |-> a.n * b.d + b.n * a.d, d |-> a.d * b.d]

FracLeq(a, b) == a.n * b.d <= b.n * a.d

(* f64::max of two numbers *)
FracMax(a, b) == IF FracLeq(a, b) THEN b ELSE a

RECURSIVE Pow(_, _)
Pow(b, e) == IF e = 0 THEN 1 ELSE b * Pow(b, e - 1)

(* The denominator of term_bm25 over 1 / (8 avg.n):                        *)
(* tf + K (1 - B + B dl / avg) = ((8 tf + 3) avg.n + 9 dl avg.d) / (8 avg.n) *)
TermDenominator(tf, doc_length, avg) == (8 * tf + 3) * avg.n + 9 * doc_length * avg.d

(* term_bm25 / idf for a finite avg_doc_length:                            *)
(* tf (K + 1) / (tf + K (1 - B + B dl / avg)) * 0.8^distance                *)
TermBm25(tf, doc_length, avg, distance) ==
    Frac(20 * tf * avg.n * Pow(4, distance),
         TermDenominator(tf, doc_length, avg) * Pow(5, distance))

RECURSIVE SumTerms(_, _, _, _)
SumTerms(indexes, doc_length, avg, k) ==
    IF k > Len(indexes) THEN Frac(0, 1)
    ELSE FracAdd(TermBm25(indexes[k].tf, doc_length, avg, indexes[k].distance),
                 SumTerms(indexes, doc_length, avg, k + 1))

(* bm25 of one window *)
Bm25(doc_length, avg, mis_result) ==
    LET sum == SumTerms(mis_result.indexes, doc_length, avg, 1)
    IN [n |-> sum.n, d |-> sum.d * (mis_result.slop + 1)]

RECURSIVE MaxOfGroup(_, _, _, _)
MaxOfGroup(group, doc_length, avg, k) ==
    IF k > Len(group) THEN Frac(0, 1)
    ELSE FracMax(TermBm25(group[k].tf, doc_length, avg, group[k].distance),
                 MaxOfGroup(group, doc_length, avg, k + 1))

(* max_bm25 *)
RECURSIVE MaxBm25(_, _, _, _)
MaxBm25(pointers, doc_length, avg, k) ==
    IF k > Len(pointers) THEN Frac(0, 1)
    ELSE FracAdd(MaxOfGroup(pointers[k], doc_length, avg, 1),
                 MaxBm25(pointers, doc_length, avg, k + 1))

(* The score Search::search gives the candidate: the best window, from 0.0 *)
RECURSIVE BestScore(_, _, _, _)
BestScore(windows, doc_length, avg, k) ==
    IF k > Len(windows) THEN Frac(0, 1)
    ELSE FracMax(Bm25(doc_length, avg, windows[k]), BestScore(windows, doc_length, avg, k + 1))

(* doc.tokens.len(): the number of distinct tokens of the document *)
DocLength(doc) == Cardinality(Range(doc))

(* The scores are finite: no division by zero in term_bm25 *)
FiniteScores(doc, avg) ==
    \A tf \in 0..Len(doc) : TermDenominator(tf, DocLength(doc), avg) # 0

InitMatch ==
    /\ EngineInit
    /\ probe \in [doc : MatchDocs, query : MatchQueries, slop : 0..MatchSlop, avg : MatchAvgs,
                  windows : {<< >>}, max_score : {Frac(0, 1)}, score : {Frac(0, 1)},
                  phase : {"candidate"}]
    /\ Candidate(probe.doc, probe.query)
    /\ FiniteScores(probe.doc, probe.avg)

(* The body of the loop of Search::search for the candidate, with no       *)
(* pruning: max_bm25, then the windows and the best score                   *)
MatchCandidate ==
    /\ probe.phase = "candidate"
    /\ LET pointers == Pointers(probe.doc, probe.query)
           dl == DocLength(probe.doc)
           windows == MisWindows(MisNew(pointers, probe.slop))
       IN probe' = [probe EXCEPT !.windows = windows,
                                 !.max_score = MaxBm25(pointers, dl, probe.avg, 1),
                                 !.score = BestScore(windows, dl, probe.avg, 1),
                                 !.phase = "scored"]
    /\ UNCHANGED engine

NextMatch == MatchCandidate

SpecMatch == InitMatch /\ [][NextMatch]_vars

(* C17: max_bm25 of a candidate is at least the score of every window MIS  *)
(* emits for it                                                             *)
C17_MaxBoundSound ==
    probe.phase = "scored" =>
        \A k \in DOMAIN probe.windows :
            FracLeq(Bm25(DocLength(probe.doc), probe.avg, probe.windows[k]), probe.max_score)

(* C20: a bag query (slop 0) of the two terms quick and fox returns every  *)
(* document that holds both, also with another token between them: the     *)
(* candidate gets a positive score, which is what puts it on the heap       *)
C20_BagQueryMatches ==
    (/\ probe.phase = "scored"
     /\ probe.slop = 0
     /\ probe.avg.n > 0
     /\ probe.query = << << [token |-> "quick", distance |-> 0] >>,
                         << [token |-> "fox", distance |-> 0] >> >>)
        => probe.windows # << >> /\ probe.score.n > 0

----------------------------------------------------------------------------
(* The heap of Search::search: BinaryHeap<Reverse<SearchResult>> as a      *)
(* sequence, data[p + 1] being the element at index p, and the search over *)
(* the candidates of the one-term query fox, in ascending order of doc id.  *)

TopLen == 3

TopDocs == { << "fox", "fox", "fox" >>, << "fox", "fox" >>, << "fox" >>, << "fox", "quick" >> }

TopAvgs == { Rat(1, 1), Rat(-5, 4), Rat(-1, 1) }

TopQuery == << << [token |-> "fox", distance |-> 0] >> >>

(* a <= b for Reverse<SearchResult>: other.0 <= self.0, by score alone *)
RevLeq(a, b) == FracLeq(b.score, a.score)

(* BinaryHeap::sift_up with the element e in the hole at pos *)
RECURSIVE SiftUp(_, _, _, _)
SiftUp(data, start, pos, e) ==
    IF pos > start /\ ~RevLeq(e, data[((pos - 1) \div 2) + 1])
    THEN SiftUp([data EXCEPT ![pos + 1] = data[((pos - 1) \div 2) + 1]],
                start, (pos - 1) \div 2, e)
    ELSE [data EXCEPT ![pos + 1] = e]

(* BinaryHeap::push *)
HeapPush(data, item) == SiftUp(Append(data, item), 0, Len(data), item)

(* The greater child of the hole: child += (data[child] <= data[child + 1]) *)
GreaterChild(data, child) ==
    IF RevLeq(data[child + 1], data[child + 2]) THEN child + 1 ELSE child

(* BinaryHeap::sift_down_to_bottom(0), e in the hole at pos *)
RECURSIVE SiftDownToBottom(_, _, _, _)
SiftDownToBottom(data, pos, endd, e) ==
    LET child == 2 * pos + 1
    IN IF child <= endd - 2
       THEN LET c == GreaterChild(data, child)
            IN SiftDownToBottom([data EXCEPT ![pos + 1] = data[c + 1]], c, endd, e)
       ELSE IF child = endd - 1
            THEN SiftUp([data EXCEPT ![pos + 1] = data[child + 1]], 0, child, e)
            ELSE SiftUp(data, 0, pos, e)

(* BinaryHeap::pop of a heap that is not empty: the heap that is left *)
HeapPop(data) ==
    LET item == data[Len(data)]
        rest == SubSeq(data, 1, Len(data) - 1)
    IN IF rest = << >> THEN rest ELSE SiftDownToBottom(rest, 0, Len(rest), item)

(* BinaryHeap::sift_down_range(0, end), e in the hole at pos *)
RECURSIVE SiftDownRange(_, _, _, _)
SiftDownRange(data, pos, endd, e) ==
    LET child == 2 * pos + 1
    IN IF child <= endd - 2
       THEN LET c == GreaterChild(data, child)
            IN IF RevLeq(data[c + 1], e) THEN [data EXCEPT ![pos + 1] = e]
               ELSE SiftDownRange([data EXCEPT ![pos + 1] = data[c + 1]], c, endd, e)
       ELSE IF child = endd - 1 /\ ~RevLeq(data[child + 1], e)
            THEN [data EXCEPT ![pos + 1] = data[child + 1], ![child + 1] = e]
            ELSE [data EXCEPT ![pos + 1] = e]

(* The loop of BinaryHeap::into_sorted_vec: swap(0, end), sift_down_range *)
RECURSIVE SortFrom(_, _)
SortFrom(data, endd) ==
    IF endd > 1
    THEN LET e == endd - 1
             swapped == [data EXCEPT ![1] = data[e + 1], ![e + 1] = data[1]]
         IN SortFrom(SiftDownRange(swapped, 0, e, swapped[1]), e)
    ELSE data

(* A faulty into_sorted_vec that gives the vector of the heap as it is *)
IntoVec(data) == data

(* BinaryHeap::into_sorted_vec *)
IntoSortedVec(data) == SortFrom(data, Len(data))

(* A score as a fraction in lowest terms *)
FracNorm(a) == LET g == GCD(Abs(a.n), a.d) IN [n |-> a.n \div g, d |-> a.d \div g]

(* max_bm25 and the best window score of a candidate of the query fox, as *)
(* the body of the loop of Search::search computes them                    *)
CandidateScore(doc, avg) ==
    LET pointers == Pointers(doc, TopQuery)
    IN [max_score |-> FracNorm(MaxBm25(pointers, DocLength(doc), avg, 1)),
        score |-> FracNorm(BestScore(MisWindows(MisNew(pointers, 0)), DocLength(doc), avg, 1))]

(* The loop of Search::search from candidate i on, scored[i] holding the   *)
(* two scores of candidate i; the id of a document is its place among the  *)
(* candidates                                                               *)
RECURSIVE SearchFrom(_, _, _, _)
SearchFrom(scored, top_k, i, results) ==
    IF i > Len(scored) THEN results
    ELSE LET item == [doc_id |-> i, score |-> scored[i].score]
         IN IF top_k # 0 /\ Len(results) = top_k
               /\ FracLeq(scored[i].max_score, results[1].score)
            THEN SearchFrom(scored, top_k, i + 1, results)
            ELSE IF item.score.n > 0
                 THEN IF top_k = 0 \/ Len(results) < top_k
                      THEN SearchFrom(scored, top_k, i + 1, HeapPush(results, item))
                      ELSE IF ~FracLeq(item.score, results[1].score)
                           THEN SearchFrom(scored, top_k, i + 1,
                                           HeapPush(HeapPop(results), item))
                           ELSE SearchFrom(scored, top_k, i + 1, results)
                 ELSE SearchFrom(scored, top_k, i + 1, results)

(* Search::search of the query fox: the results, best first *)
TopSearch(scored, top_k) == IntoSortedVec(SearchFrom(scored, top_k, 1, << >>))

InitTop ==
    /\ EngineInit
    /\ probe \in [cands : UNION { [1..n -> TopDocs] : n \in 1..TopLen }, avg : TopAvgs,
                  top_k : 1..TopLen, top : {<< >>}, all : {<< >>}, phase : {"query"}]
    /\ \A i \in DOMAIN probe.cands : FiniteScores(probe.cands[i], probe.avg)

(* search(q, top_k) and search(q, 0) on the same state *)
SearchBoth ==
    /\ probe.phase = "query"
    /\ \E scored \in { [i \in DOMAIN probe.cands |-> CandidateScore(probe.cands[i], probe.avg)] } :
           probe' = [probe EXCEPT !.top = TopSearch(scored, probe.top_k),
                                  !.all = TopSearch(scored, 0),
                                  !.phase = "answered"]
    /\ UNCHANGED engine

NextTop == SearchBoth

SpecTop == InitTop /\ [][NextTop]_vars

Scores(results) == [i \in DOMAIN results |-> results[i].score]

Min(a, b) == IF a <= b THEN a ELSE b

(* C16: search(q, k) has at most k entries and their scores are the first  *)
(* k scores of search(q, 0)                                                 *)
C16_TopK ==
    probe.phase = "answered" =>
        /\ Len(probe.top) <= probe.top_k
        /\ Scores(probe.top) = SubSeq(Scores(probe.all), 1, Min(probe.top_k, Len(probe.all)))

(* C18 as the code has it: the results of search(q, k) and of search(q, 0) *)
(* come in descending order of score, each document once                    *)
C18_ScoreDescending ==
    probe.phase = "answered" =>
        \A r \in {probe.top, probe.all} : \A i, j \in DOMAIN r :
            i < j => FracLeq(r[j].score, r[i].score) /\ r[i].doc_id # r[j].doc_id

(* C18 as stated: results of equal score come in descending order of doc id *)
C18_TiesByDocIdDescending ==
    probe.phase = "answered" =>
        \A r \in {probe.top, probe.all} : \A i, j \in DOMAIN r :
            (i < j /\ r[i].score = r[j].score) => r[i].doc_id > r[j].doc_id

(* An answer with two results of one score next to each other and two    *)
(* neighbours of different scores                                          *)
C18_Witness ==
    /\ probe.phase = "answered"
    /\ \E i \in DOMAIN probe.all : i + 1 \in DOMAIN probe.all
                                   /\ probe.all[i].score = probe.all[i + 1].score
    /\ \E i \in DOMAIN probe.all : i + 1 \in DOMAIN probe.all
                                   /\ probe.all[i].score # probe.all[i + 1].score

----------------------------------------------------------------------------
(* The fuzzy trie by characters (utils/trie.rs).  A node is a record       *)
(* [c, is_word, nodes]; nodes is the Vec<(char, Node)> kept sorted by c.   *)
(* probe.words is the set of the words added and not deleted since.         *)

MaxWordLen == 3

Alphabet == << "a", "b", "c" >>

CharOrd(c) == CHOOSE i \in DOMAIN Alphabet : Alphabet[i] = c

Strings == UNION { [1..n -> Range(Alphabet)] : n \in 0..MaxWordLen }

(* The words added and deleted *)
TrieWords ==
    { << "a" >>, << "a", "a" >>, << "a", "a", "a" >>, << "a", "b" >>, << "a", "b", "a" >>,
      << "a", "b", "b" >>, << "b" >>, << "b", "b", "b" >>, << "c" >> }

Min3(a, b, c) == IF a <= b /\ a <= c THEN a ELSE IF b <= c THEN b ELSE c

RECURSIVE Lev(_, _)
Lev(a, b) ==
    IF a = << >> THEN Len(b)
    ELSE IF b = << >> THEN Len(a)
    ELSE Min3(Lev(Tail(a), b) + 1, Lev(a, Tail(b)) + 1,
              Lev(Tail(a), Tail(b)) + (IF Head(a) = Head(b) THEN 0 ELSE 1))

(* The Levenshtein distance, as a table *)
Levenshtein == [p \in Strings \X Strings |-> Lev(p[1], p[2])]

(* The automaton as an exact oracle, its state being the prefix read:      *)
(* distance and is_match of the prefix, and can_match, which holds when    *)
(* some word that starts with the prefix is within d of the query, that    *)
(* is when the prefix is within d of some prefix of the query              *)
AutomatonDistance(prefix, query) == Levenshtein[<< prefix, query >>]

AutomatonIsMatch(prefix, query, d) == AutomatonDistance(prefix, query) <= d

AutomatonCanMatch(prefix, query, d) ==
    \E j \in 0..Len(query) : Levenshtein[<< prefix, SubSeq(query, 1, j) >>] <= d

(* nodes.binary_search_by(|t| t.0.cmp(&c)): Ok(index) *)
NodeFound(nodes, c) == { i \in DOMAIN nodes : nodes[i].c = c }

(* nodes.binary_search_by(|t| t.0.cmp(&c)): Err(index) *)
NodeSlot(nodes, c) == 1 + Cardinality({ i \in DOMAIN nodes : CharOrd(nodes[i].c) < CharOrd(c) })

(* Trie::add from character i of the word on *)
RECURSIVE TrieAdd(_, _, _)
TrieAdd(nodes, word, i) ==
    IF i > Len(word) THEN nodes
    ELSE LET c == word[i]
             last == (i = Len(word))
         IN IF NodeFound(nodes, c) # {}
            THEN LET at == CHOOSE x \in NodeFound(nodes, c) : TRUE
                 IN [nodes EXCEPT ![at] =
                        [c |-> c,
                         is_word |-> IF last THEN TRUE ELSE nodes[at].is_word,
                         nodes |-> TrieAdd(nodes[at].nodes, word, i + 1)]]
            ELSE LET at == NodeSlot(nodes, c)
                     node == [c |-> c, is_word |-> last, nodes |-> TrieAdd(<< >>, word, i + 1)]
                 IN SubSeq(nodes, 1, at - 1) \o << node >> \o SubSeq(nodes, at, Len(nodes))

(* Vec::remove *)
RemoveAt(s, at) == SubSeq(s, 1, at - 1) \o SubSeq(s, at + 1, Len(s))

(* A faulty _delete step that removes the child whenever it was reached *)
PruneAlways(r) == r.deleted

(* Trie::_delete: the child is removed when it is empty and no word *)
Prune(r) == r.can_remove /\ r.deleted

(* Trie::_delete from character i of the word on: the nodes after the call *)
(* and the tuple (index, can_remove, deleted) it returns                    *)
RECURSIVE TrieDeleteFrom(_, _, _)
TrieDeleteFrom(nodes, word, i) ==
    IF i > Len(word) THEN [nodes |-> nodes, index |-> 0, can_remove |-> FALSE, deleted |-> TRUE]
    ELSE IF NodeFound(nodes, word[i]) # {}
    THEN LET at == CHOOSE x \in NodeFound(nodes, word[i]) : TRUE
             node == nodes[at]
         IN IF i = Len(word)
            THEN [nodes |-> [nodes EXCEPT ![at].is_word = FALSE], index |-> at,
                  can_remove |-> (node.nodes = << >>), deleted |-> TRUE]
            ELSE LET r == TrieDeleteFrom(node.nodes, word, i + 1)
                 IN IF Prune(r)
                    THEN LET kids == RemoveAt(r.nodes, r.index)
                         IN [nodes |-> [nodes EXCEPT ![at].nodes = kids], index |-> at,
                             can_remove |-> (kids = << >> /\ ~node.is_word),
                             deleted |-> r.deleted]
                    ELSE [nodes |-> [nodes EXCEPT ![at].nodes = r.nodes], index |-> at,
                          can_remove |-> FALSE, deleted |-> r.deleted]
    ELSE [nodes |-> nodes, index |-> 0, can_remove |-> FALSE, deleted |-> FALSE]

(* Trie::delete: the tuple _delete returns is dropped *)
TrieDelete(nodes, word) == TrieDeleteFrom(nodes, word, 1).nodes

(* Trie::_search over nodes from the k-th on: the matches in the order     *)
(* they are pushed                                                          *)
RECURSIVE TrieSearchFrom(_, _, _, _, _)
TrieSearchFrom(nodes, prefix, d, query, k) ==
    IF k > Len(nodes) THEN << >>
    ELSE LET node == nodes[k]
             word == Append(prefix, node.c)
             rest == TrieSearchFrom(nodes, prefix, d, query, k + 1)
         IN IF ~AutomatonCanMatch(word, query, d) THEN rest
            ELSE (IF node.is_word /\ AutomatonIsMatch(word, query, d)
                  THEN << << AutomatonDistance(word, query), word >> >> ELSE << >>)
                 \o TrieSearchFrom(node.nodes, word, d, query, 1) \o rest

(* Trie::search(d, query), the automata of 0, 1 and 2 being initialised *)
TrieSearch(nodes, d, query) == TrieSearchFrom(nodes, << >>, d, query, 1)

InitTrie == EngineInit /\ probe = [nodes |-> << >>, words |-> {}]

TrieAddWord(word) ==
    /\ probe' = [nodes |-> TrieAdd(probe.nodes, word, 1), words |-> probe.words \cup {word}]
    /\ UNCHANGED engine

TrieDeleteWord(word) ==
    /\ probe' = [nodes |-> TrieDelete(probe.nodes, word), words |-> probe.words \ {word}]
    /\ UNCHANGED engine

NextTrie ==
    \/ \E word \in TrieWords : TrieAddWord(word)
    \/ \E word \in TrieWords : TrieDeleteWord(word)

SpecTrie == InitTrie /\ [][NextTrie]_vars

(* C19: for d in 0..2 and every query, search(d, query) gives exactly the  *)
(* stored words within distance d of the query, each once and with its     *)
(* distance                                                                 *)
C19_FuzzyComplete ==
    \A d \in 0..2 : \A query \in Strings :
        LET matches == TrieSearch(probe.nodes, d, query)
        IN /\ Range(matches) = { << Levenshtein[<< w, query >>], w >> :
                                   w \in { x \in probe.words : Levenshtein[<< x, query >>] <= d } }
           /\ \A i, j \in DOMAIN matches : i # j => matches[i] # matches[j]

(* A trie after a delete that left the node of c without word and child,   *)
(* holding ab and not aba, and with stored words at distance 0, 1, 2 and 3 *)
(* of the query bbb                                                         *)
C19_Witness ==
    /\ << "a", "b" >> \in probe.words
    /\ << "a", "b", "a" >> \notin probe.words
    /\ \E i \in DOMAIN probe.nodes : probe.nodes[i].c = "c" /\ probe.nodes[i].nodes = << >>
                                     /\ ~probe.nodes[i].is_word
    /\ \A n \in 0..3 : \E w \in probe.words : Levenshtein[<< w, << "b", "b", "b" >> >>] = n

----------------------------------------------------------------------------
(* Search::new on a root directory in any state of construction.  The      *)
(* file system is the set of the paths that exist, each file empty; a       *)
(* segment stands for its directory with its three files.                   *)

FsPaths == { "root", "index", "index/tokens", "index/index", "index/meta", "meta", "segment" }

(* A path exists only inside a directory that exists *)
FsClosed(fs) ==
    /\ fs # {} => "root" \in fs
    /\ fs \cap { "index/tokens", "index/index", "index/meta" } # {} => "index" \in fs

(* The config argument: none, a readable TOML file, a path that does not   *)
(* exist, a file that is not valid TOML                                     *)
OpenConfigs == { "none", "valid", "missing", "malformed" }

(* Config::load: read_to_string(path)? and toml::from_str(..).unwrap() *)
ConfigLoad(config) ==
    CASE config = "missing" -> "error"
      [] config = "malformed" -> "panic"
      [] OTHER -> "ok"

(* TokenHasher::load: creates the index directory and the tokens file when *)
(* either is missing                                                        *)
HasherLoadFs(fs) ==
    IF "index" \notin fs \/ "index/tokens" \notin fs
    THEN fs \cup { "root", "index", "index/tokens" }
    ELSE fs

(* IndexManager::load over LogsReader::new and MetaReader::new: the index  *)
(* file is opened with `?`, the meta file with unwrap(); neither is created *)
IndexLoadStatus(fs) ==
    IF "index/index" \notin fs THEN "error"
    ELSE IF "index/meta" \notin fs THEN "panic"
    ELSE "ok"

(* SearchMeta::load: creates the meta file when it is missing *)
MetaLoadFs(fs) == fs \cup { "meta" }

(* DocumentsManager::load: with no segment, create_dir_all and a fresh     *)
(* segment                                                                  *)
DmLoadFs(fs) == fs \cup { "root", "segment" }

(* Search::new: the fields of Self are evaluated in the order written,     *)
(* index_manager, meta, documents_manager, after config and hasher          *)
SearchNew(fs, config) ==
    IF ConfigLoad(config) # "ok"
    THEN [status |-> ConfigLoad(config), fs |-> fs, docs |-> {}, index |-> {}]
    ELSE IF IndexLoadStatus(HasherLoadFs(fs)) # "ok"
    THEN [status |-> IndexLoadStatus(HasherLoadFs(fs)), fs |-> HasherLoadFs(fs),
          docs |-> {}, index |-> {}]
    ELSE [status |-> "ok", fs |-> DmLoadFs(MetaLoadFs(HasherLoadFs(fs))),
          docs |-> DOMAIN DmLoad(EmptyMap, 1).docs,
          index |-> DOMAIN LogsLoad(LogFilesNew, TRUE).index]

InitOpen ==
    /\ EngineInit
    /\ \E fs \in SUBSET FsPaths : \E config \in OpenConfigs :
           /\ FsClosed(fs)
           /\ probe = [fs |-> fs, config |-> config, before |-> fs, status |-> "closed",
                       docs |-> {}, index |-> {}]

(* One call of Search::new(dir, config) on the directory as it is now *)
OpenDir ==
    /\ LET r == SearchNew(probe.fs, probe.config)
       IN probe' = [probe EXCEPT !.before = probe.fs, !.fs = r.fs, !.status = r.status,
                                 !.docs = r.docs, !.index = r.index]
    /\ UNCHANGED engine

NextOpen == OpenDir

SpecOpen == InitOpen /\ [][NextOpen]_vars

(* C21: Search::new on a root that does not exist, or exists and is empty, *)
(* succeeds, creates the root, the index directory with its files and a     *)
(* fresh segment, and yields an engine with no documents and no postings.   *)
C21_OpenFreshSucceeds ==
    (probe.status # "closed" /\ probe.before \subseteq { "root" }
         /\ probe.config \in { "none", "valid" })
        => /\ probe.status = "ok"
           /\ FsPaths \subseteq probe.fs
           /\ probe.docs = {} /\ probe.index = {}

----------------------------------------------------------------------------
(* Query::parse (query/parser.rs) by characters.  A parser returns a        *)
(* record: st is "ok", "fail" (no match, the caller may try something else) *)
(* or "panic" (the process aborts inside the parser); pos is the position   *)
(* of the next character; errs: validate emitted an error.                  *)

MaxPieces == 5

(* The pieces the queries are put together from *)
QueryPieces == { << "a" >>, << "A" >>, << "~" >>, << "\"" >>, << " " >>, << "2" >>,
                 << "2", "5", "6" >> }

RECURSIVE Concat(_)
Concat(ps) == IF ps = << >> THEN << >> ELSE Head(ps) \o Concat(Tail(ps))

ParseQueries == { Concat(ps) : ps \in UNION { [1..n -> QueryPieces] : n \in 0..MaxPieces } }

(* str::make_ascii_lowercase *)
AsciiLower(c) == IF c = "A" THEN "a" ELSE c

IsWhitespace(c) == c = " "

IsDigit(c) == c \in { "0", "1", "2", "3", "4", "5", "6", "7", "8", "9" }

DigitValue(c) ==
    CASE c = "0" -> 0 [] c = "1" -> 1 [] c = "2" -> 2 [] c = "3" -> 3 [] c = "4" -> 4
      [] c = "5" -> 5 [] c = "6" -> 6 [] c = "7" -> 7 [] c = "8" -> 8 [] c = "9" -> 9

(* any().filter(..): a character of a token *)
IsTokenChar(c) == ~IsWhitespace(c) /\ c # "\"" /\ c # "~"

(* repeated(): the end of the longest run of token characters from i *)
RECURSIVE TokenEnd(_, _)
TokenEnd(s, i) == IF i <= Len(s) /\ IsTokenChar(s[i]) THEN TokenEnd(s, i + 1) ELSE i

(* text::digits(10): the end of the longest run of digits from i *)
RECURSIVE DigitsEnd(_, _)
DigitsEnd(s, i) == IF i <= Len(s) /\ IsDigit(s[i]) THEN DigitsEnd(s, i + 1) ELSE i

(* text::whitespace(): the end of the longest run of whitespace from i *)
RECURSIVE WhitespaceEnd(_, _)
WhitespaceEnd(s, i) == IF i <= Len(s) /\ IsWhitespace(s[i]) THEN WhitespaceEnd(s, i + 1) ELSE i

(* The decimal value of the digits s[i..j] *)
RECURSIVE Decimal(_, _, _)
Decimal(s, i, j) == IF j < i THEN 0 ELSE 10 * Decimal(s, i, j - 1) + DigitValue(s[j])

U8Max == 255

(* number: digits, at least one, then u8::from_str(s).unwrap() *)
Number(s, i) ==
    LET j == DigitsEnd(s, i)
    IN IF j = i THEN [st |-> "fail"]
       ELSE IF Decimal(s, i, j - 1) > U8Max THEN [st |-> "panic"]
       ELSE [st |-> "ok", pos |-> j, value |-> Decimal(s, i, j - 1)]

(* Query::map_auto_fuzz *)
MapAutoFuzz(len) == IF len <= 2 THEN 0 ELSE IF len <= 5 THEN 1 ELSE 2

(* fuzz.or_not() after a token of length len: "~", an optional number,     *)
(* validate                                                                 *)
FuzzOrNot(s, i, len) ==
    LET Fuzz(n) ==
            CASE n.st = "panic" -> [st |-> "panic"]
              [] n.st = "fail" -> [st |-> "ok", pos |-> i + 1, fuzz |-> MapAutoFuzz(len),
                                   errs |-> FALSE]
              [] OTHER -> [st |-> "ok", pos |-> n.pos, fuzz |-> n.value, errs |-> n.value > 2]
    IN IF i > Len(s) \/ s[i] # "~" THEN [st |-> "ok", pos |-> i, fuzz |-> 0, errs |-> FALSE]
       ELSE Fuzz(Number(s, i + 1))

(* terms: term.separated_by(ws).at_least(1); a separator that no term      *)
(* follows is given back                                                    *)
RECURSIVE Terms(_, _)
Terms(s, i) ==
    LET More(f, term, rest) ==
            CASE rest.st = "panic" -> [st |-> "panic"]
              [] rest.st = "fail" -> [st |-> "ok", pos |-> f.pos, terms |-> << term >>,
                                      errs |-> f.errs]
              [] OTHER -> [st |-> "ok", pos |-> rest.pos, terms |-> << term >> \o rest.terms,
                           errs |-> f.errs \/ rest.errs]
        Rest(k, pos) == IF k > pos THEN Terms(s, k) ELSE [st |-> "fail"]
        Term(j, f) ==
            IF f.st = "panic" THEN [st |-> "panic"]
            ELSE More(f, [text |-> SubSeq(s, i, j - 1), fuzz |-> f.fuzz],
                      Rest(WhitespaceEnd(s, f.pos), f.pos))
        Token(j) == IF j = i THEN [st |-> "fail"] ELSE Term(j, FuzzOrNot(s, j, j - i))
    IN Token(TokenEnd(s, i))

(* slop.or_not() *)
SlopOrNot(s, i) ==
    LET Slop(n) ==
            CASE n.st = "panic" -> [st |-> "panic"]
              [] n.st = "fail" -> [st |-> "ok", pos |-> i, slop |-> 0]
              [] OTHER -> [st |-> "ok", pos |-> n.pos, slop |-> n.value]
    IN IF i > Len(s) \/ s[i] # "~" THEN [st |-> "ok", pos |-> i, slop |-> 0]
       ELSE Slop(Number(s, i + 1))

(* whitespace, then phrase: a quote, terms, a quote, an optional slop *)
Phrase(s) ==
    LET Closed(t, sl) ==
            IF sl.st = "panic" THEN [st |-> "panic"]
            ELSE [st |-> "ok", pos |-> sl.pos, terms |-> t.terms, slop |-> sl.slop,
                  errs |-> t.errs]
        Quoted(t) ==
            IF t.st # "ok" THEN [st |-> t.st]
            ELSE IF t.pos > Len(s) \/ s[t.pos] # "\"" THEN [st |-> "fail"]
            ELSE Closed(t, SlopOrNot(s, t.pos + 1))
        Quote(i) == IF i <= Len(s) /\ s[i] = "\"" THEN Quoted(Terms(s, i + 1))
                    ELSE [st |-> "fail"]
    IN Quote(WhitespaceEnd(s, 1))

(* Query::parser: the phrase or else the terms from the start, then        *)
(* whitespace and the end of the input                                      *)
Parser(s) ==
    LET End(q) ==
            IF q.st # "ok" THEN [st |-> q.st]
            ELSE IF WhitespaceEnd(s, q.pos) <= Len(s) THEN [st |-> "fail"]
            ELSE q
        Bag(t) ==
            IF t.st # "ok" THEN t
            ELSE [st |-> "ok", pos |-> t.pos, terms |-> t.terms, slop |-> 0, errs |-> t.errs]
        Or(p) == IF p.st # "fail" THEN End(p) ELSE End(Bag(Terms(s, 1)))
    IN Or(Phrase(s))

(* Query::parse: lowercases, runs the parser; errors or no output give the *)
(* PyValueError                                                             *)
QueryParse(query) ==
    LET Result(r) ==
            CASE r.st = "panic" -> [result |-> "panic"]
              [] r.st = "fail" -> [result |-> "error"]
              [] r.errs -> [result |-> "error"]
              [] OTHER -> [result |-> "ok", terms |-> r.terms, slop |-> r.slop]
    IN Result(Parser([i \in DOMAIN query |-> AsciiLower(query[i])]))

InitParse ==
    /\ EngineInit
    /\ probe \in [query : ParseQueries, parsed : { [result |-> "none"] }]

ParseQuery ==
    /\ probe.parsed.result = "none"
    /\ probe' = [probe EXCEPT !.parsed = QueryParse(probe.query)]
    /\ UNCHANGED engine

NextParse == ParseQuery

SpecParse == InitParse /\ [][NextParse]_vars

(* C22: Query::parse returns a Query or the structured error for every     *)
(* input and never aborts, also for a fuzz or slop literal above 255; a     *)
(* Query it returns has every fuzziness in 0..2.                            *)
C22_ParseTotal ==
    probe.parsed.result # "none"
        => /\ probe.parsed.result \in { "ok", "error" }
           /\ probe.parsed.result = "ok"
                  => \A i \in DOMAIN probe.parsed.terms : probe.parsed.terms[i].fuzz \in 0..2

----------------------------------------------------------------------------
(* The engine with adds that fail and with reopening at any time: the      *)
(* operations of SpecFail and Search::new on the directory of an engine     *)
(* that was dropped without a flush.                                        *)

InitCrash == InitFail

NextCrash ==
    \/ NextFail
    \/ \E checks \in BOOLEAN : Reopen(checks)

SpecCrash == InitCrash /\ [][NextCrash]_vars

(* The doc ids of the postings in the in-memory index *)
PostedIds == UNION { { index[t][i].doc_id : i \in DOMAIN index[t] } : t \in DOMAIN index }

(* C24: every posting of the in-memory index has a doc id that is in the   *)
(* live map or in the deleted-docs buffer, also right after a reopen with   *)
(* deletes that were not purged and after a failed add, so that scoring a   *)
(* candidate never looks up a document missing from the live map.           *)
C24_PostingsHaveDocuments ==
    PostedIds \subseteq (DOMAIN docs) \cup (DOMAIN deleted_docs_buffer)

----------------------------------------------------------------------------
(* PostingListIntersection (intersect.rs) over an index with strictly      *)
(* ascending postings.  A query is the sequence of its terms, a term the    *)
(* set of the token ids its fuzzy expansions hash to.  A heap of pointers   *)
(* is the set of its elements: it is ordered by doc_id alone, and among     *)
(* equal doc ids pop takes any.                                             *)

MaxDocId == 3

IxTokens == 1..3

MaxTerms == 3

(* The postings vectors: the non-empty strictly ascending sequences of ids *)
AscendingPostings ==
    { [k \in DOMAIN SetToSeq(S) |-> [doc_id |-> SetToSeq(S)[k]]] : S \in (SUBSET (1..MaxDocId)) \ {{}} }

(* The indexes: each token has a postings vector or is not in the index *)
Indexes ==
    UNION { [T -> AscendingPostings] : T \in SUBSET IxTokens }

TermGroups == { {1}, {2}, {3}, {1, 2}, {2, 3} }

IxQueries == UNION { [1..n -> TermGroups] : n \in 1..MaxTerms }

(* TokenDocPointer at posting doc_idx (from 0) of the token *)
Pointer(ix, token, doc_idx) ==
    [doc_id |-> ix[token][doc_idx + 1].doc_id, doc_idx |-> doc_idx, token |-> token]

(* peek of BinaryHeap<Reverse<TokenDocPointer>>: a pointer of least doc_id *)
HeapPeek(heap) == CHOOSE p \in heap : \A q \in heap : p.doc_id <= q.doc_id

(* The loop of next_docs: pops the pointers at the least doc id, pushing   *)
(* back each one moved to its next posting                                  *)
RECURSIVE NextDocsLoop(_, _, _)
NextDocsLoop(ix, heap, doc_ids) ==
    IF heap # {} /\ (doc_ids = << >> \/ doc_ids[1].doc_id = HeapPeek(heap).doc_id)
    THEN LET p == HeapPeek(heap)
             popped == heap \ {p}
         IN NextDocsLoop(ix,
                         IF p.doc_idx + 1 <= Len(ix[p.token]) - 1
                         THEN popped \cup { Pointer(ix, p.token, p.doc_idx + 1) }
                         ELSE popped,
                         Append(doc_ids, p))
    ELSE [heap |-> heap, docs |-> doc_ids]

(* A next_docs that pops one pointer only *)
NextDocsOne(ix, heap) ==
    IF heap = {} THEN [heap |-> heap, docs |-> << >>]
    ELSE LET p == HeapPeek(heap)
         IN [heap |-> IF p.doc_idx + 1 <= Len(ix[p.token]) - 1
                      THEN (heap \ {p}) \cup { Pointer(ix, p.token, p.doc_idx + 1) }
                      ELSE heap \ {p},
             docs |-> << p >>]

(* PostingListIntersection::next_docs *)
NextDocs(ix, heap) == NextDocsLoop(ix, heap, << >>)

(* binary_search_by on strictly ascending postings: the index (from 0) of  *)
(* the first posting with doc_id >= target, found or not                    *)
BinarySearch(postings, target_doc) ==
    Cardinality({ k \in DOMAIN postings : postings[k].doc_id < target_doc })

(* A geq_docs that leaves the pointers where they are *)
GeqDocsStays(ix, heap, target_doc) ==
    [heap |-> heap, docs |-> IF heap = {} THEN << >> ELSE << HeapPeek(heap) >>]

(* PostingListIntersection::geq_docs *)
RECURSIVE GeqDocs(_, _, _)
GeqDocs(ix, heap, target_doc) ==
    IF heap # {} /\ HeapPeek(heap).doc_id < target_doc
    THEN LET doc == HeapPeek(heap)
             popped == heap \ {doc}
             new_idx == BinarySearch(ix[doc.token], target_doc)
         IN GeqDocs(ix,
                    IF new_idx <= Len(ix[doc.token]) - 1
                    THEN popped \cup { Pointer(ix, doc.token, new_idx) }
                    ELSE popped,
                    target_doc)
    ELSE NextDocs(ix, heap)

(* PostingListIntersection::new: nothing when a term has no token in the   *)
(* index                                                                    *)
IntersectionNew(query, ix) ==
    LET pointers == [i \in DOMAIN query |->
                        { Pointer(ix, t, 0) : t \in query[i] \cap DOMAIN ix }]
    IN [index |-> ix, query |-> query, pointers |-> pointers,
        docs |-> [i \in DOMAIN query |-> << >>],
        phase |-> IF \E i \in DOMAIN query : pointers[i] = {} THEN "done" ELSE "idle",
        same |-> TRUE, target_doc |-> 0, out |-> << >>, passes |-> 0]

(* The first loop of next from term i on: r.none when a term is exhausted *)
RECURSIVE FirstLoop(_, _, _)
FirstLoop(ix, r, i) ==
    IF r.none \/ i > Len(r.docs) THEN r
    ELSE LET n == NextDocs(ix, r.pointers[i])
             ds == [r.docs EXCEPT ![i] = n.docs]
         IN IF n.docs = << >>
            THEN [r EXCEPT !.pointers[i] = n.heap, !.none = TRUE]
            ELSE FirstLoop(ix,
                           [r EXCEPT !.pointers[i] = n.heap, !.docs = ds,
                                     !.same = IF i # 1 /\ ds[i][1].doc_id # ds[i - 1][1].doc_id
                                              THEN FALSE ELSE r.same],
                           i + 1)

(* One pass of the for loop inside the catch-up loop, from term i on *)
RECURSIVE CatchUp(_, _, _, _)
CatchUp(ix, r, cur_target_doc, i) ==
    IF r.none \/ i > Len(r.docs) THEN r
    ELSE LET g == GeqDocs(ix, r.pointers[i], r.target_doc)
             lagging == cur_target_doc # r.docs[i][1].doc_id
             r1 == IF ~lagging THEN r
                   ELSE IF g.docs = << >>
                   THEN [r EXCEPT !.pointers[i] = g.heap, !.none = TRUE]
                   ELSE [r EXCEPT !.pointers[i] = g.heap, !.docs[i] = g.docs,
                                  !.target_doc = IF g.docs[1].doc_id > r.target_doc
                                                 THEN g.docs[1].doc_id ELSE r.target_doc]
         IN IF r1.none THEN r1
            ELSE CatchUp(ix,
                         [r1 EXCEPT !.same = IF i # 1 /\ r1.docs[i][1].doc_id # r1.docs[i - 1][1].doc_id
                                             THEN FALSE ELSE r1.same],
                         cur_target_doc, i + 1)

(* The greatest of the doc ids the terms are at *)
MaxDoc(ds) == CHOOSE d \in { ds[i][1].doc_id : i \in DOMAIN ds } :
                  \A i \in DOMAIN ds : ds[i][1].doc_id <= d

InitIntersect ==
    /\ EngineInit
    /\ \E ix \in Indexes : \E query \in IxQueries : probe = IntersectionNew(query, ix)

(* next up to its catch-up loop: every term moves to its next document *)
NextStart ==
    /\ probe.phase = "idle"
    /\ LET r == FirstLoop(probe.index,
                          [pointers |-> probe.pointers, docs |-> probe.docs, same |-> TRUE,
                           none |-> FALSE],
                          1)
       IN probe' = IF r.none
                   THEN [probe EXCEPT !.pointers = r.pointers, !.docs = r.docs, !.phase = "done"]
                   ELSE [probe EXCEPT !.pointers = r.pointers, !.docs = r.docs, !.same = r.same,
                                      !.target_doc = MaxDoc(r.docs), !.phase = "loop",
                                      !.passes = 0]
    /\ UNCHANGED engine

(* One pass of the catch-up loop of next: return the aligned documents, or *)
(* move the lagging terms to the target                                     *)
NextPass ==
    /\ probe.phase = "loop"
    /\ IF probe.same
       THEN probe' = [probe EXCEPT !.out = Append(@, probe.docs), !.phase = "idle"]
       ELSE LET r == CatchUp(probe.index,
                             [pointers |-> probe.pointers, docs |-> probe.docs, same |-> TRUE,
                              target_doc |-> probe.target_doc, none |-> FALSE],
                             probe.target_doc, 1)
            IN probe' = IF r.none
                        THEN [probe EXCEPT !.pointers = r.pointers, !.docs = r.docs,
                                           !.phase = "done"]
                        ELSE [probe EXCEPT !.pointers = r.pointers, !.docs = r.docs,
                                           !.same = r.same, !.target_doc = r.target_doc,
                                           !.passes = IF @ < MaxDocId THEN @ + 1 ELSE @]
    /\ UNCHANGED engine

NextIntersect == NextStart \/ NextPass

SpecIntersect == InitIntersect /\ [][NextIntersect]_vars

(* The doc ids of the postings of a token *)
DocsOf(ix, token) == { ix[token][k].doc_id : k \in DOMAIN ix[token] }

(* The expansions of term i that occur in document d *)
ExpansionsIn(d, i) ==
    { t \in probe.query[i] \cap DOMAIN probe.index : d \in DocsOf(probe.index, t) }

(* The documents with a posting under some expansion of every term *)
Matching == { d \in 1..MaxDocId : \A i \in DOMAIN probe.query : ExpansionsIn(d, i) # {} }

(* C26: the intersector yields exactly the doc ids with a posting under an *)
(* expansion of every term, each once and in ascending order, and for each  *)
(* of them the pointers of term i are exactly the expansions of term i that *)
(* occur in the document.                                                   *)
C26_IntersectExact ==
    /\ Len(probe.out) <= Cardinality(Matching)
    /\ probe.phase = "done" => Len(probe.out) = Cardinality(Matching)
    /\ \A k \in DOMAIN probe.out :
           LET d == SetToSeq(Matching)[k]
           IN \A i \in DOMAIN probe.query :
                  /\ { probe.out[k][i][j].token : j \in DOMAIN probe.out[k][i] } = ExpansionsIn(d, i)
                  /\ Len(probe.out[k][i]) = Cardinality(ExpansionsIn(d, i))
                  /\ \A j \in DOMAIN probe.out[k][i] :
                         /\ probe.out[k][i][j].doc_id = d
                         /\ Pointer(probe.index, probe.out[k][i][j].token,
                                    probe.out[k][i][j].doc_idx).doc_id = d

(* An iterator that ended after it yielded two documents, the second one   *)
(* found by catching up, for a query of three terms one of which has two    *)
(* expansions in a yielded document                                         *)
C26_Witness ==
    /\ probe.phase = "done"
    /\ Len(probe.out) = 2
    /\ Len(probe.query) = 3
    /\ \E i \in DOMAIN probe.query : Len(probe.out[2][i]) = 2
    /\ Cardinality(UNION { DocsOf(probe.index, t) : t \in DOMAIN probe.index }) = MaxDocId

(* The postings the pointers of the iterator have still to pass *)
RECURSIVE HeapWork(_, _)
HeapWork(ix, heap) ==
    IF heap = {} THEN 0
    ELSE LET p == CHOOSE q \in heap : TRUE
         IN Len(ix[p.token]) - p.doc_idx + HeapWork(ix, heap \ {p})

RECURSIVE Work(_, _)
Work(pr, i) == IF i > Len(pr.pointers) THEN 0
               ELSE HeapWork(pr.index, pr.pointers[i]) + Work(pr, i + 1)

(* The rank of a state of the iterator: the work left, and within one     *)
(* amount of work the place in next                                         *)
Rank(pr) ==
    IF pr.phase = "done" THEN 0
    ELSE 2 * Work(pr, 1) + (IF pr.phase = "loop" THEN 2 ELSE 1)

(* C27: each call of next terminates and the iterator ends after finitely  *)
(* many calls: every step of next lowers a rank that is a natural number,   *)
(* and every pass of the catch-up loop that does not return moves a         *)
(* pointer of a lagging term forward or ends the iterator.                  *)
C27_IntersectTerminates ==
    [][/\ Rank(probe') < Rank(probe)
       /\ Rank(probe') >= 0
       /\ (probe.phase = "loop" /\ ~probe.same /\ probe'.phase = "loop")
              => Work(probe', 1) < Work(probe, 1)]_vars

(* An iterator that ended after a call of next made two passes of the      *)
(* catch-up loop                                                            *)
C27_Witness ==
    /\ probe.phase = "done"
    /\ probe.passes >= 2
    /\ probe.out # << >>

----------------------------------------------------------------------------
(* The windows of MinimalIntervalSemanticMatch for one candidate, for      *)
(* queries of up to three terms over documents of up to WindowLen tokens.   *)

WindowLen == 5

WindowSlop == 2

WindowDocs == UNION { [1..n -> MatchWords] : n \in 1..WindowLen }

WindowQueries ==
    { << << [token |-> "quick", distance |-> 0] >> >>,
      << << [token |-> "quick", distance |-> 0] >>, << [token |-> "brown", distance |-> 0] >> >>,
      << << [token |-> "quick", distance |-> 0] >>, << [token |-> "brown", distance |-> 0] >>,
         << [token |-> "fox", distance |-> 0] >> >>,
      << << [token |-> "quick", distance |-> 0] >>,
         << [token |-> "fox", distance |-> 0], [token |-> "fix", distance |-> 1] >> >> }

InitWindow ==
    /\ EngineInit
    /\ probe \in [doc : WindowDocs, query : WindowQueries, slop : 0..WindowSlop,
                  windows : {<< >>}, phase : {"candidate"}]
    /\ Candidate(probe.doc, probe.query)

(* The for loop of Search::search over the windows of the candidate *)
MisRun ==
    /\ probe.phase = "candidate"
    /\ probe' = [probe EXCEPT !.windows = MisWindows(MisNew(Pointers(probe.doc, probe.query),
                                                            probe.slop)),
                              !.phase = "matched"]
    /\ UNCHANGED engine

NextWindow == MisRun

SpecWindow == InitWindow /\ [][NextWindow]_vars

(* The positions of the tokens of term i of the query in the document *)
GroupPositions(i) ==
    UNION { Range(PositionsOf(probe.doc, probe.query[i][v].token)) : v \in DOMAIN probe.query[i] }

(* The sum of the deviations |p[i-1] - (p[i] - 1)| of a chain of positions *)
RECURSIVE ChainSlop(_, _)
ChainSlop(p, i) == IF i > Len(p) THEN 0 ELSE Abs(p[i - 1] - (p[i] - 1)) + ChainSlop(p, i + 1)

(* The chains p[1] < ... < p[k], p[i] a position of term i, within the slop *)
Chains ==
    { p \in [DOMAIN probe.query -> 0..(WindowLen - 1)] :
          /\ \A i \in DOMAIN p : p[i] \in GroupPositions(i)
          /\ \A i \in DOMAIN p : i > 1 => p[i - 1] < p[i]
          /\ ChainSlop(p, 2) <= probe.slop }

(* C28: MIS emits a window for the candidate exactly when there are        *)
(* positions p_0 < ... < p_{k-1}, p_i of term i, whose deviations sum to at *)
(* most the slop: the scan over the terms 1..k-1 starts afresh for every    *)
(* start position of term 0.                                                *)
C28_MisComplete ==
    probe.phase = "matched" => (probe.windows # << >> <=> Chains # {})

(* C29: in every window MIS emits, the term frequency of each term's token *)
(* meta is the number of positions of that token in the document.           *)
C29_WindowTf ==
    probe.phase = "matched"
        => \A w \in DOMAIN probe.windows : \A i \in DOMAIN probe.windows[w].indexes :
               probe.windows[w].indexes[i].tf
                   = Len(PositionsOf(probe.doc, probe.windows[w].indexes[i].token))

(* C38: optional whitespace before the query is accepted for both          *)
(* alternatives of the grammar: a query that parses, bag or phrase, parses  *)
(* to the same Query with a whitespace character put in front of it.        *)
C38_LeadingWhitespace ==
    probe.parsed.result = "ok" => QueryParse(<< " " >> \o probe.query) = probe.parsed

(* Some node at or below nodes has no child and ends no word *)
RECURSIVE HasDeadNode(_)
HasDeadNode(nodes) ==
    \E i \in DOMAIN nodes :
        \/ nodes[i].nodes = << >> /\ ~nodes[i].is_word
        \/ HasDeadNode(nodes[i].nodes)

(* C39: after any sequence of add and delete no node of the trie is both   *)
(* childless and not a word terminal: delete removes, bottom-up, every node *)
(* on the word's path that is left so, the first character's node included. *)
C39_NoDeadNodes == ~HasDeadNode(probe.nodes)

----------------------------------------------------------------------------
(* The LRU cache (utils/lru.rs).  The nodes of the list live in a heap:    *)
(* nodes maps the address of each node that some Rc keeps alive to the      *)
(* record [key, val, prev, next]; 0 is None.  prev is the Rc towards the    *)
(* head, next the Weak towards the tail.  probe.cache is the cache,         *)
(* probe.order the keys in the order of their last use, newest first, as    *)
(* far as the capacity reaches, probe.got what the last get returned and    *)
(* probe.evicted the keys that left the cache.                              *)

LruCapacity == 3

LruKeys == 1..(LruCapacity + 1)

LruVals == { 0, 1 }

NodeIds == 1..(LruCapacity + 2)

(* LRUCache::new *)
LruNew(capacity) ==
    [capacity |-> capacity, map |-> EmptyMap, nodes |-> EmptyMap,
     head |-> 0, tail |-> 0, size |-> 0, status |-> "ok"]

(* Rc::new: an address that no node and no pointer uses *)
NodeAlloc(c) ==
    CHOOSE id \in NodeIds :
        /\ id \notin DOMAIN c.nodes
        /\ \A n \in DOMAIN c.nodes : c.nodes[n].next # id /\ c.nodes[n].prev # id
        /\ \A other \in NodeIds :
               (other \notin DOMAIN c.nodes
                /\ \A n \in DOMAIN c.nodes : c.nodes[n].next # other /\ c.nodes[n].prev # other)
                   => id <= other

(* The nodes some chain of Rc keeps alive: those of the map, the head, the *)
(* tail, and the prev of a node that is alive                               *)
RECURSIVE KeptAlive(_, _, _)
KeptAlive(c, ids, k) ==
    IF k = 0 THEN ids
    ELSE KeptAlive(c, ids \cup ({ c.nodes[n].prev : n \in ids \cap DOMAIN c.nodes } \ {0}),
                   k - 1)

(* The drop of the nodes whose last Rc is gone *)
DropDead(c) ==
    LET alive == KeptAlive(c, (Range(c.map) \cup { c.head, c.tail }) \ {0}, Cardinality(NodeIds))
    IN [c EXCEPT !.nodes = [n \in (DOMAIN c.nodes) \cap alive |-> c.nodes[n]]]

(* List::push: r.cache the cache, r.node the new node *)
ListPush(c, key, val) ==
    LET node == NodeAlloc(c)
        fresh == [key |-> key, val |-> val, prev |-> 0, next |-> 0]
        n1 == MapPut(c.nodes, node, fresh)
    IN [node |-> node,
        cache |-> IF c.head # 0
                  THEN [c EXCEPT !.nodes = [n1 EXCEPT ![c.head].prev = node, ![node].next = c.head],
                                 !.head = node,
                                 !.size = @ + 1]
                  ELSE [c EXCEPT !.nodes = n1, !.tail = node, !.head = node, !.size = @ + 1]]

(* List::pop: r.cache the cache, r.val the key of the value taken, if any *)
ListPop(c) ==
    IF c.tail = 0 THEN [cache |-> c, val |-> {}]
    ELSE LET tail == c.tail
             prev == c.nodes[tail].prev
             n1 == [c.nodes EXCEPT ![tail].prev = 0]
         IN [val |-> { c.nodes[tail].key },
             cache |-> IF prev # 0
                       THEN [c EXCEPT !.nodes = [n1 EXCEPT ![prev].next = 0],
                                      !.tail = prev,
                                      !.size = @ - 1]
                       ELSE [c EXCEPT !.nodes = n1, !.tail = 0, !.head = 0, !.size = @ - 1]]

(* A faulty move_front that does not set the tail when it moves the last   *)
(* node                                                                     *)
ListMoveFrontKeepsTail(c, node) ==
    LET prev == c.nodes[node].prev
        next == c.nodes[node].next
        n1 == [c.nodes EXCEPT ![node].prev = 0]
    IN IF prev = 0 THEN c
       ELSE LET n2 == [n1 EXCEPT ![prev].next = next]
                n3 == [n2 EXCEPT ![node].next = 0]
                n4 == IF next # 0 /\ next \in DOMAIN n3 THEN [n3 EXCEPT ![next].prev = prev]
                      ELSE n3
                head == c.head
                n5 == IF head # 0 THEN [n4 EXCEPT ![node].next = head, ![head].prev = node]
                      ELSE n4
            IN [c EXCEPT !.nodes = n5, !.head = node]

(* List::move_front.  node is mutably borrowed during the call: borrowing  *)
(* it again through prev, next or head panics.                              *)
ListMoveFront(c, node) ==
    LET prev == c.nodes[node].prev
        next == c.nodes[node].next
        n1 == [c.nodes EXCEPT ![node].prev = 0]
    IN IF prev = 0 THEN c
       ELSE IF prev = node \/ next = node \/ c.head = node
            THEN [c EXCEPT !.status = "panic"]
       ELSE LET n2 == [n1 EXCEPT ![prev].next = next]
                n3 == [n2 EXCEPT ![node].next = 0]
                n4 == IF next # 0 /\ next \in DOMAIN n3 THEN [n3 EXCEPT ![next].prev = prev]
                      ELSE n3
                tail == IF next = 0 THEN prev ELSE c.tail
                head == c.head
                n5 == IF head # 0 THEN [n4 EXCEPT ![node].next = head, ![head].prev = node]
                      ELSE n4
            IN [c EXCEPT !.nodes = n5, !.tail = tail, !.head = node]

(* LRUCache::add *)
LruAdd(c, key, val) ==
    LET Evict(c1) ==
            IF c1.status = "ok" /\ c1.size > c1.capacity
            THEN LET p == ListPop(c1)
                 IN [p.cache EXCEPT !.map = [k \in (DOMAIN p.cache.map) \ p.val |-> p.cache.map[k]]]
            ELSE c1
        Update(c1) ==
            IF c1.status # "ok" THEN c1 ELSE [c1 EXCEPT !.nodes[c.map[key]].val = val]
        Insert(p) == [p.cache EXCEPT !.map = MapPut(p.cache.map, key, p.node)]
    IN DropDead(Evict(IF key \in DOMAIN c.map
                      THEN Update(ListMoveFront(c, c.map[key]))
                      ELSE Insert(ListPush(c, key, val))))

(* LRUCache::get: r.cache the cache, r.val the value returned, if any *)
LruGet(c, key) ==
    IF key \notin DOMAIN c.map THEN [cache |-> c, val |-> {}]
    ELSE LET Moved(c1) == [cache |-> DropDead(c1),
                           val |-> IF c1.status = "ok" THEN { c1.nodes[c.map[key]].val } ELSE {}]
         IN Moved(ListMoveFront(c, c.map[key]))

(* The keys in the order of their last use, after the use of key *)
Used(order, key, capacity) ==
    LET rest == SelectSeq(order, LAMBDA k : k # key)
        all == << key >> \o rest
    IN IF Len(all) > capacity THEN SubSeq(all, 1, capacity) ELSE all

InitLru ==
    /\ EngineInit
    /\ probe \in { [cache |-> LruNew(capacity), order |-> << >>, got |-> {}, evicted |-> {}] :
                       capacity \in 0..LruCapacity }

LruAddKey(key, val) ==
    /\ probe.cache.status = "ok"
    /\ \E c \in { LruAdd(probe.cache, key, val) } :
           probe' = [cache |-> c,
                     order |-> Used(probe.order, key, probe.cache.capacity),
                     got |-> {},
                     evicted |-> probe.evicted \cup
                                     (((DOMAIN probe.cache.map) \cup {key}) \ DOMAIN c.map)]
    /\ UNCHANGED engine

LruGetKey(key) ==
    /\ probe.cache.status = "ok"
    /\ \E r \in { LruGet(probe.cache, key) } :
           probe' = [cache |-> r.cache,
                     order |-> IF key \in DOMAIN probe.cache.map
                               THEN Used(probe.order, key, probe.cache.capacity)
                               ELSE probe.order,
                     got |-> r.val,
                     evicted |-> probe.evicted]
    /\ UNCHANGED engine

NextLru ==
    \/ \E key \in LruKeys, val \in LruVals : LruAddKey(key, val)
    \/ \E key \in LruKeys : LruGetKey(key)

SpecLru == InitLru /\ [][NextLru]_vars

(* The keys of the list from node on along next, at most k of them *)
RECURSIVE KeysForward(_, _, _)
KeysForward(c, node, k) ==
    IF node = 0 \/ node \notin DOMAIN c.nodes \/ k = 0 THEN << >>
    ELSE << c.nodes[node].key >> \o KeysForward(c, c.nodes[node].next, k - 1)

(* The keys of the list from node on along prev, at most k of them *)
RECURSIVE KeysBackward(_, _, _)
KeysBackward(c, node, k) ==
    IF node = 0 \/ node \notin DOMAIN c.nodes \/ k = 0 THEN << >>
    ELSE << c.nodes[node].key >> \o KeysBackward(c, c.nodes[node].prev, k - 1)

Reverse(s) == [i \in DOMAIN s |-> s[Len(s) + 1 - i]]

(* C40: after any sequence of add and get the cache holds at most capacity *)
(* keys, the key map and the linked list hold the same keys (each node of   *)
(* the list is the one the map has for its key, and size counts them), and  *)
(* the list is in the order of last use, get and add of an existing key     *)
(* counting as a use, so that the key evicted when a new key exceeds the    *)
(* capacity is the least recently used one.                                 *)
C40_LruInvariant ==
    LET c == probe.cache
        forward == KeysForward(c, c.head, Cardinality(NodeIds) + 1)
        backward == KeysBackward(c, c.tail, Cardinality(NodeIds) + 1)
    IN /\ c.status = "ok"
       /\ Cardinality(DOMAIN c.map) <= c.capacity
       /\ c.size = Cardinality(DOMAIN c.map)
       /\ Range(forward) = DOMAIN c.map
       /\ Len(forward) = c.size
       /\ \A key \in DOMAIN c.map : c.map[key] \in DOMAIN c.nodes /\ c.nodes[c.map[key]].key = key
       /\ forward = probe.order
       /\ backward = Reverse(forward)

(* A full cache of the greatest capacity after two keys were evicted, one  *)
(* of them added again, and after a get that found its key                  *)
C40_Witness ==
    /\ probe.cache.capacity = LruCapacity
    /\ probe.cache.size = LruCapacity
    /\ Cardinality(probe.evicted) >= 2
    /\ probe.evicted \cap DOMAIN probe.cache.map # {}
    /\ probe.got # {}
    /\ probe.cache.nodes[probe.cache.head].val \in probe.got
    /\ probe.cache.nodes[probe.cache.head].key \in probe.evicted

----------------------------------------------------------------------------
(* Properties.                                                             *)

(* The stems of the body a document was added with *)
StemsOf(id) == DOMAIN TokenizeDoc(bodyOf[id]).map

(* The doc ids of the postings of token t, in the order of the vector *)
PostingIds(t) == [i \in DOMAIN index[t] |-> index[t][i].doc_id]

(* The terms of the query vocabulary that are not stop words *)
ContentTerms == { term \in QueryTerms : Lower(term) \notin StopWords }

(* A segment was merged away: fewer directories than names handed out *)
SegmentMerged == Cardinality(DOMAIN disk) < clock - 1

(* C1: once add(body) has returned id, get(id) followed by reading the     *)
(* document's content returns the body that was added, in every state       *)
(* after the add, whether or not the documents buffer was flushed.          *)
C1_ContentRoundTrip ==
    \A id \in DOMAIN docs : \A d \in Get(id) : Content(d, disk) = {bodyOf[id]}

(* C2: after add, delete and merge followed by flush, loading the document *)
(* store from the directory gives exactly the live documents (same ids,     *)
(* each with the same len, tokens and location), and no document that was   *)
(* deleted.                                                                 *)
C2_ReopenSameDocuments ==
    flushed => /\ DmLoad(disk, clock).docs = docs
               /\ \A id \in removed : id \notin DOMAIN DmLoad(disk, clock).docs

(* A flushed store with a deleted document and a live document that a      *)
(* merge moved out of the first segment                                     *)
C2_Witness ==
    /\ flushed
    /\ removed # {}
    /\ SegmentMerged
    /\ 1 \in DOMAIN docs
    /\ docs[1].location.segment # 1

(* C3: after inserts and batched deletes followed by a flush of the log    *)
(* buffers, replaying the index log newest-first reconstructs exactly the   *)
(* in-memory postings index, whatever the build profile.                    *)
C3_ReplayReconstructsIndex ==
    flushed => \A checks \in BOOLEAN :
                   /\ LogsLoad(logdisk, checks).status = "ok"
                   /\ LogsLoad(logdisk, checks).index = index

(* C4: a single-term exact query for a non-stop-word term with top_k = 0   *)
(* returns exactly the live documents whose analysed body contains the      *)
(* term's stem.                                                             *)
C4_ExactTermSearch ==
    \A term \in ContentTerms :
        /\ Search(term).status = "ok"
        /\ Search(term).ids = { id \in DOMAIN docs : Stem(Lower(term)) \in StemsOf(id) }

(* C5: the token hasher is a bijection: map[s] = i exactly when the        *)
(* reverse lookup of i gives s, so unhash(hash(s)) = s and no two tokens    *)
(* share an id.                                                             *)
C5_HasherBijection ==
    /\ \A s \in DOMAIN hasher.map : HasherUnhash(hasher, hasher.map[s]) = {s}
    /\ \A i \in 0..Len(hasher.tokens) :
           \A s \in HasherUnhash(hasher, i) : HasherHash(hasher, s) = {i}
    /\ \A s, t \in DOMAIN hasher.map : s # t => hasher.map[s] # hasher.map[t]

(* C6: after delete(id) of a live document, get(id) fails with not-found   *)
(* and no search returns the document, while the purge is deferred and      *)
(* after it has run.                                                        *)
C6_DeletedIsGone ==
    \A id \in removed :
        /\ Get(id) = {}
        /\ \A term \in QueryTerms : id \notin Search(term).ids

(* One deleted document still awaits the purge with its postings in the    *)
(* index, another was purged, and a search returns a live document          *)
C6_Witness ==
    /\ \E id \in removed :
           /\ id \in DOMAIN deleted_docs_buffer
           /\ \E t \in DOMAIN index : id \in Range(PostingIds(t))
    /\ \E id \in removed :
           /\ id \notin DOMAIN deleted_docs_buffer
           /\ \A t \in DOMAIN index : id \notin Range(PostingIds(t))
    /\ \E term \in QueryTerms : Search(term).ids # {}

(* C7: after interleavings of add and delete followed by flush, the number *)
(* of live documents is the number added minus the number deleted.          *)
C7_LiveCount ==
    flushed => Cardinality(DOMAIN docs) = Cardinality(DOMAIN bodyOf) - Cardinality(removed)

(* A flushed engine with a deleted document older than a live one *)
C7_Witness ==
    /\ flushed
    /\ \E id \in removed : \E other \in DOMAIN docs : id < other
    /\ \E id \in removed : \E other \in DOMAIN docs : other < id

(* C8: for every token id the doc ids of its postings are strictly         *)
(* ascending, so no doc id occurs twice in one vector.                      *)
C8_PostingsAscending ==
    \A t \in DOMAIN index :
        \A i, j \in DOMAIN index[t] : i < j => PostingIds(t)[i] < PostingIds(t)[j]

(* C9: after flush the deleted-docs buffer is empty, no posting refers to  *)
(* a deleted document, the documents buffer and the index-log buffer are    *)
(* empty, and what was buffered is in the files: every live body reads      *)
(* back from its data file.                                                 *)
C9_FlushEmptiesBuffers ==
    flushed =>
        /\ deleted_docs_buffer = EmptyMap
        /\ \A t \in DOMAIN index : Range(PostingIds(t)) \cap removed = {}
        /\ buffer.documents = << >> /\ buffer.meta = << >>
        /\ logbuf.index = << >> /\ logbuf.meta = << >>
        /\ \A id \in DOMAIN docs : Content(docs[id], disk) = {bodyOf[id]}

(* A flushed engine that has purged a document, keeps postings and has     *)
(* both of its logs on disk                                                 *)
C9_Witness ==
    /\ flushed
    /\ removed # {}
    /\ index # EmptyMap
    /\ logdisk.index # << >>
    /\ \E path \in DOMAIN disk : disk[path].data # << >> /\ disk[path].del # << >>

(* C10: after flush with at least one live document, avg_doc_len is the    *)
(* sum of len over the live documents divided by their number.              *)
C10_AvgOverLive ==
    (flushed /\ DOMAIN docs # {}) =>
        avg_doc_len = Rat(SumLen(docs, DOMAIN docs), Cardinality(DOMAIN docs))

(* The segments merge_segment accepts: not the active one, of non-zero     *)
(* size, with deleted / size at least merge_deleted_ratio                   *)
MergeEligible(st) ==
    { path \in DOMAIN st.segments :
          /\ path # st.cur_segment
          /\ st.segments[path].size # 0
          /\ st.segments[path].deleted * MergeRatioDen >= MergeRatioNum * st.segments[path].size }

(* The store after a second merge() right after a first one *)
MergeTwice(st, due1, due2) == DmMerge(DmMerge(st, due1), due2)

C12_MergeRemovesAllEligible ==
    \A docsDue \in BOOLEAN :
        LET m == DmMerge(Store, docsDue)
        IN \A path \in MergeEligible(Store) :
               path \notin DOMAIN m.segments /\ path \notin DOMAIN m.disk

(* C13: merge twice in succession leaves the segment directories, the      *)
(* segment map and the live map as merge once does.                         *)
C13_MergeIdempotent ==
    \A due1, due2 \in BOOLEAN :
        LET once == DmMerge(Store, due1)
            twice == MergeTwice(Store, due1, due2)
        IN /\ twice.disk = once.disk
           /\ twice.segments = once.segments
           /\ twice.docs = once.docs

(* The token ids with a non-empty postings vector *)
IndexedIds == { t \in DOMAIN index : index[t] # << >> }

(* C23: the words in the fuzzy trie are the tokens of the hasher map, and  *)
(* these are the tokens whose id has a non-empty postings vector: a purge   *)
(* that empties a token's postings removes that token, and no other, from   *)
(* the index, the hasher and the trie.                                      *)
C23_TokenLifecycle ==
    /\ fuzzy_trie = DOMAIN hasher.map
    /\ { hasher.map[s] : s \in DOMAIN hasher.map } = IndexedIds

(* The arguments (docs_num, token_docs_num) of the term_bm25 calls of      *)
(* Search::search(term, 0): one call of bm25 per window of each candidate   *)
(* that is not in the deleted-docs buffer and is in the live map, with      *)
(* docs.len() and the length of the token's postings                        *)
TermBm25Calls(term) ==
    LET query == TokenizeQuery(Lower(term))
        words == IF query = << >> THEN {} ELSE TrieSearchExact(fuzzy_trie, query[1])
        tokens == UNION { HasherHash(hasher, w) : w \in words }
        found == { t \in tokens \cap DOMAIN index : index[t] # << >> }
    IN { [docs_num |-> Cardinality(DOMAIN docs), token_docs_num |-> Len(index[t])] :
             t \in { u \in found : \E i \in DOMAIN index[u] :
                                      /\ index[u][i].doc_id \notin DOMAIN deleted_docs_buffer
                                      /\ index[u][i].doc_id \in DOMAIN docs } }

(* C25: whenever search computes a term score, the live document count N   *)
(* is at least the postings length n_t of the token, so N - n_t does not    *)
(* underflow, also while deleted documents await the deferred purge.        *)
C25_IdfNoUnderflow ==
    \A term \in QueryTerms : \A c \in TermBm25Calls(term) : c.docs_num >= c.token_docs_num

(* C30: the document length passed to the BM25 term score of a candidate,  *)
(* for the window scores and for the max_bm25 bound, is the document's len: *)
(* the number of tokens the analyser produced for its body, repeated tokens *)
(* counted.                                                                 *)
C30_ScoreLengthIsLen ==
    \A id \in DOMAIN docs :
        /\ ScoreDocLength(id) = docs[id].len
        /\ ScoreDocLength(id) = TokenizeDoc(bodyOf[id]).n

(* C31: flush() with no document pending deletion leaves avg_doc_len, the  *)
(* live map and the postings index as they are, for every number of live   *)
(* documents, zero included.                                               *)
C31_FlushNoPendingIsNoop ==
    deleted_docs_buffer = EmptyMap =>
        \A order \in Orders(PendingTokens(Store)) :
            LET f == ForceDelete(Store, order, FALSE, FALSE)
            IN /\ f.avg = avg_doc_len
               /\ DmFlush(f.st).docs = docs
               /\ f.ix = index

(* C32: every live document's location names a segment of the segment map  *)
(* that is on disk; once the buffer has been flushed the range             *)
(* [offset, offset + size) lies inside the segment's data file and overlaps *)
(* the range of no other live document of the same segment.                 *)
C32_LocationsValid ==
    \A id \in DOMAIN docs :
        LET loc == docs[id].location
        IN /\ loc.segment \in DOMAIN segments
           /\ loc.segment \in DOMAIN disk
           /\ buffer.documents = << >> =>
                  /\ loc.offset + loc.size <= Len(disk[loc.segment].data)
                  /\ \A other \in DOMAIN docs \ {id} :
                         docs[other].location.segment = loc.segment =>
                             \/ loc.offset + loc.size <= docs[other].location.offset
                             \/ docs[other].location.offset + docs[other].location.size
                                    <= loc.offset

(* A flushed engine in which merge moved document 1 out of the segment it  *)
(* was written to, which is gone, and another live document lies in the    *)
(* segment document 1 is in now.                                            *)
C32_Witness ==
    /\ buffer.documents = << >>
    /\ 1 \in DOMAIN docs
    /\ docs[1].location.segment # 1
    /\ 1 \notin DOMAIN disk
    /\ \E other \in DOMAIN docs \ {1} :
           docs[other].location.segment = docs[1].location.segment

(* s is an initial part of t *)
IsPrefix(s, t) == Len(s) <= Len(t) /\ \A i \in DOMAIN s : s[i] = t[i]

(* C33: segment files are append-only: in every step, for each segment     *)
(* directory that exists before and after it, the data, meta and del files *)
(* before the step are prefixes of the files after it; a segment's files    *)
(* change in no other way until merge removes the segment.                  *)
C33_SegmentsAppendOnly ==
    [][\A path \in DOMAIN disk \cap DOMAIN disk' :
           /\ IsPrefix(disk[path].data, disk'[path].data)
           /\ IsPrefix(disk[path].meta, disk'[path].meta)
           /\ IsPrefix(disk[path].del, disk'[path].del)]_vars

(* A segment with documents, meta entries and tombstones on disk, written  *)
(* after a rotation, while merge has removed the first segment.             *)
C33_Witness ==
    /\ 1 \notin DOMAIN disk
    /\ Cardinality(DOMAIN disk) >= 2
    /\ \E path \in DOMAIN disk :
           /\ disk[path].data # << >>
           /\ disk[path].meta # << >>
           /\ disk[path].del # << >>

(* C34: during the replay of the index log the cursor of every token stays *)
(* within bounds: it is never taken below zero, neither by the decrement    *)
(* after the oldest live ADD of a token nor by the initial value for a      *)
(* token whose newest record carries postings count 0.                      *)
C34_ReplayCursorInBounds ==
    flushed => \A checks \in BOOLEAN : ~LogsLoad(logdisk, checks).underflow

(* The tombstones of document id in the del files of the segments on disk *)
Tombstones(id) ==
    { << path, i >> \in UNION { { << p, j >> : j \in DOMAIN disk[p].del } : p \in DOMAIN disk } :
          disk[path].del[i].id = id }

(* C35: delete(id) for an id that is not in the live map, never added or   *)
(* already deleted, leaves the store as it is: no tombstone is appended, no *)
(* segment's deleted counter, nor the live map, nor the deleted-docs buffer *)
(* changes, and Search::delete returns without a purge; so a document has   *)
(* at most one tombstone however often it is deleted.                       *)
C35_DeleteAbsentIsNoop ==
    /\ \A id \in (1..(MaxDocs + 1)) \ DOMAIN docs :
           LET st == DmDelete(Store, id)
           IN /\ st.disk = disk
              /\ st.segments = segments
              /\ st.docs = docs
              /\ st.deleted_docs_buffer = deleted_docs_buffer
              /\ DeleteDefers(Cardinality(DOMAIN st.deleted_docs_buffer),
                              Cardinality(DOMAIN st.docs))
    /\ \A id \in 1..MaxDocs : Cardinality(Tombstones(id)) <= 1

(* A document deleted and awaiting the purge with its tombstone on disk,   *)
(* a document deleted and purged, and an id that was never added.           *)
C35_Witness ==
    /\ \E id \in DOMAIN deleted_docs_buffer : Cardinality(Tombstones(id)) = 1
    /\ \E id \in removed : id \notin DOMAIN deleted_docs_buffer /\ id \notin DOMAIN docs
    /\ next_ulid <= MaxDocs

(* C36: an add that returns an error after some of the document's postings *)
(* were inserted leaves avg_doc_len, the postings index, the hasher and    *)
(* the trie as they were before the call, with no posting of the failed    *)
(* document and no token with an empty postings vector.                    *)
C36_FailedAddRestores ==
    [][(/\ probe' # probe
        /\ \E t \in DOMAIN index' : \E i \in DOMAIN index'[t] :
               index'[t][i].doc_id = next_ulid)
           => /\ avg_doc_len' = avg_doc_len
              /\ index' = index
              /\ hasher' = hasher
              /\ fuzzy_trie' = fuzzy_trie
              /\ \A t \in DOMAIN index' : index'[t] # << >>]_vars

(* C37: search on a query whose terms are all stop words, so that the      *)
(* tokenised query has no term, returns the empty result list and does not  *)
(* fail.                                                                    *)
C37_StopWordQueryEmpty ==
    \A term \in QueryTerms :
        TokenizeQuery(Lower(term)) = << >> =>
            /\ Search(term).status = "ok"
            /\ Search(term).ids = {}

====
